---- MODULE Spec2Model ----
(***************************************************************************)
(* A model of the steering-mode state machine of the MotionController      *)
(* (src/hardware/motion_controller.py): set_steering_mode, the reposition  *)
(* protocol with its background ramp thread, and the handlers that change  *)
(* the motors' named speed multipliers.                                    *)
(*                                                                         *)
(* Speeds are integers in thousandths (0.09 is 90, 0.21 is 210).           *)
(* The Motor, MotorController and ServoController classes are not part of  *)
(* the sources at hand; the few effects of theirs that the controller      *)
(* reads back (a motor's set of multiplier names, the servos' is_rotated)  *)
(* are modelled from the specification and marked so in the model map.     *)
(***************************************************************************)
EXTENDS Integers, Sequences, FiniteSets, TLC

\* ------------------------------------------------------------------ bounds

\* the largest magnitude of a target speed reached by change_speed calls, in
\* thousandths
TargetBound == 12

\* the freq_divider of the configuration (irq_clock.py line 57)
FreqDivider == 2

\* the most enabled ticks of the IrqClock followed
MaxTicks == 5

\* motors on each side of the robot
MotorsPerSide == 1
\* ramp threads that may be alive at once (a failed servo command leaves the
\* ramp thread of its reposition running)
MaxRampThreads == 1

\* ------------------------------------------------------- program constants

\* "ten steps up, ten steps down"
RampSteps == 10
\* _min_speed = 0.09
MinSpeed == 90
\* _max_speed = Chadburn.SLOW_AHEAD.speed, 0.21
MaxSpeed == 210

PORT_AFRS_STEERING_LAMBDA_NAME == "__port_afrs_steering"
STBD_AFRS_STEERING_LAMBDA_NAME == "__stbd_afrs_steering"

\* the steering modes set_steering_mode supports
SteeringModes == {"AFRS", "ROTATE", "SKID"}
\* what a caller may pass: None, a supported mode, or another member of the
\* SteeringMode enumeration
ModeArguments == SteeringModes \cup {"NONE", "OTHER"}

Sides == {"PORT", "STBD"}
Motors == Sides \X (1 .. MotorsPerSide)
Side(m) == m[1]

MultiplierNames ==
    {"steering", "stop", PORT_AFRS_STEERING_LAMBDA_NAME, STBD_AFRS_STEERING_LAMBDA_NAME}

ThreadIds == 1 .. MaxRampThreads

VARIABLES
    steering_mode,     \* self._steering_mode; "NONE" is None (unset)
    is_rotated,        \* self._servo_controller.is_rotated
    multipliers,       \* per motor, the names of its installed speed multipliers
    motor_speed,       \* last speed commanded to PORT and to STBD (thousandths)
    motor_reposition,  \* last argument of motor_controller.reposition()
    pc,                \* where the calling thread is inside set_steering_mode
    repo_thread,       \* _repo_thread of the running reposition(), 0 when none
    ramp,              \* the ramp threads: phase, loop index, whether abandoned
    call,              \* the running set_steering_mode call, or the one that
                       \* has just ended (no other handler has run since)
    hd,                \* the running or last set_heading call
    ladder,            \* self._chadburn_index, self._chadburn and the last
                       \* increment_speed call
    steer,             \* self._steering_angle_index, self._steering_angle,
                       \* self._afrs_angle, the two motor ratios, the servos'
                       \* last AFRS angle command and the last steering call
    disp,              \* the message process_message is handling or has handled
                       \* last, and self._speed_value
    gate,              \* enable() and the wait-for-pushbutton thread
    irq,               \* the IrqClock: its callback lists and its last call
    gps,               \* the GPS: its values and its last poll
    fn                 \* the last evaluation of a pure function

vars == <<steering_mode, is_rotated, multipliers, motor_speed, motor_reposition,
          pc, repo_thread, ramp, call, hd, ladder, steer, disp, gate, irq, gps, fn>>

\* the variables outside the motion controller's steering, speed and heading
sidevars == <<disp, gate, irq, gps, fn>>

\* the variables of the steering-mode state machine
modevars == <<steering_mode, is_rotated, multipliers, motor_speed, motor_reposition,
              pc, repo_thread, ramp, call>>

\* ------------------------------------------------------------ bookkeeping

\* What is remembered of a set_steering_mode call: its argument, the state it
\* started in, how it ended, and what it did.
\*   outcome: "running", "ok" (returned normally) or "error" (raised)
\*   removed, installed: whether it removed / installed any speed multiplier
\*   servo: where in the ramp the servo set_mode command was issued
\*          ("none", "before" the first speed command, "during", "after" the
\*          final zero-speed command, or with the ramp thread "dead")
\*   joined: how the ramp thread had ended when join() returned
\*          ("none", "done", "failed")
\*   again: the call directly before this one had the same argument and
\*          returned normally; first_repositions and first_needed are then that
\*          call's repositions and whether it started in another mode with
\*          the servos not in the target's mechanical state
NoCall == [target |-> "NONE", pre_mode |-> "NONE", pre_rotated |-> FALSE,
           outcome |-> "none", repositions |-> 0, removed |-> FALSE,
           installed |-> FALSE, servo |-> "none", joined |-> "none",
           again |-> FALSE, first_repositions |-> 0, first_needed |-> FALSE]

Removes(old, new) == \E m \in Motors : ~(old[m] \subseteq new[m])

Installs(old, new) == \E m \in Motors : ~(new[m] \subseteq old[m])

FreeThread == [phase |-> "free", i |-> 0, abandoned |-> FALSE]

\* ------------------------------------------------- Motor (speed multipliers)

has_speed_multiplier(installed, name) == name \in installed

\* adding a name that is already installed is rejected; every caller below
\* asks has_speed_multiplier first
add_speed_multiplier(installed, name) == installed \cup {name}

\* removing an absent name is a no-op
remove_speed_multiplier(installed, name) == installed \ {name}

\* ------------------------------------------------------- set_steering_mode

\* lines 982-983: a null argument is rejected with a ValueError
AcceptsNull(target) == FALSE

IsNullArgument(target) == target = "NONE"

\* lines 984-988: nothing to do when the mode is the one already set
AlreadyInMode(target) == steering_mode = target

\* lines 989-999: _alter_steering_mode stays True unless the servos are already
\* in the mechanical state of the target (rotated for ROTATE, not rotated for
\* anything else)
AlterAlways(target, rotated) == TRUE

AlterSteeringMode(target, rotated) ==
    IF target = "ROTATE" /\ rotated THEN FALSE
    ELSE IF target # "ROTATE" /\ ~rotated THEN FALSE
    ELSE TRUE

\* lines 1004-1008: a motor that has a "steering" multiplier loses its
\* "steering" and its "stop" multiplier
RemoveSteeringLambdas(mults) ==
    [m \in Motors |->
        IF has_speed_multiplier(mults[m], "steering")
        THEN remove_speed_multiplier(remove_speed_multiplier(mults[m], "steering"), "stop")
        ELSE mults[m]]

\* lines 1016-1027: each motor gets the AFRS multiplier of its side unless it
\* already has it
InstallAfrsLambdas(mults) ==
    [m \in Motors |->
        IF Side(m) = "PORT"
        THEN IF ~has_speed_multiplier(mults[m], PORT_AFRS_STEERING_LAMBDA_NAME)
             THEN add_speed_multiplier(mults[m], PORT_AFRS_STEERING_LAMBDA_NAME)
             ELSE mults[m]
        ELSE IF Side(m) = "STBD"
        THEN IF ~has_speed_multiplier(mults[m], STBD_AFRS_STEERING_LAMBDA_NAME)
             THEN add_speed_multiplier(mults[m], STBD_AFRS_STEERING_LAMBDA_NAME)
             ELSE mults[m]
        ELSE mults[m]]

\* line 1027: a motor on neither side makes the AFRS branch raise
UnrecognisedOrientation == \E m \in Motors : Side(m) \notin Sides

\* lines 1013-1035: the mode the commit step assigns
CommitSkipped(target, mode) == mode

CommitMode(target, mode) ==
    IF target = "AFRS" THEN "AFRS"
    ELSE IF target = "ROTATE" THEN "ROTATE"
    ELSE IF target = "SKID" THEN "SKID"
    ELSE mode

\* lines 1013-1035: whether the commit step raises
CommitRaises(target) ==
    IF target = "AFRS" THEN UnrecognisedOrientation
    ELSE target \notin {"ROTATE", "SKID"}

\* the commit step (lines 1012-1035), ending the call
Commit(target, c) ==
    /\ steering_mode' = CommitMode(target, steering_mode)
    /\ multipliers' = IF target = "AFRS" THEN InstallAfrsLambdas(multipliers)
                      ELSE multipliers
    /\ call' = [c EXCEPT !.outcome = IF CommitRaises(target) THEN "error" ELSE "ok",
                         !.installed = Installs(multipliers, multipliers')]
    /\ pc' = "idle"

\* the record of a call that starts now
NewCall(target) ==
    LET again == call.target = target /\ call.outcome = "ok"
    IN  [NoCall EXCEPT !.target = target,
                       !.pre_mode = steering_mode,
                       !.pre_rotated = is_rotated,
                       !.outcome = "running",
                       !.again = again,
                       !.first_repositions = IF again THEN call.repositions ELSE 0,
                       !.first_needed =
                           IF again
                           THEN /\ call.pre_mode # target
                                /\ call.pre_rotated # (target = "ROTATE")
                           ELSE FALSE]

\* lines 479-484: the mode the servos are commanded to
ServoMode(target) == IF target = "ROTATE" THEN "ROTATE" ELSE "SKID"

\* ServoController.set_mode(mode): what is_rotated reports once the servos
\* have moved
set_mode(mode) == mode = "ROTATE"

\* lines 976-1010 (and 1012-1035 when there is no reposition): the call up to
\* the start of the ramp thread in reposition() (lines 473-475)
set_steering_mode(target) ==
    /\ pc = "idle"
    /\ UNCHANGED <<is_rotated, motor_speed, motor_reposition>>
    /\ IF IsNullArgument(target)
       THEN /\ call' = [NewCall(target) EXCEPT !.outcome = "error"]
            /\ UNCHANGED <<steering_mode, multipliers, pc, repo_thread, ramp>>
       ELSE IF AlreadyInMode(target)
       THEN /\ call' = [NewCall(target) EXCEPT !.outcome = "ok"]
            /\ UNCHANGED <<steering_mode, multipliers, pc, repo_thread, ramp>>
       ELSE IF AlterSteeringMode(target, is_rotated)
       THEN /\ \E t \in ThreadIds :
                 /\ ramp[t].phase = "free"
                 /\ \A u \in ThreadIds : u < t => ramp[u].phase # "free"
                 /\ ramp' = [ramp EXCEPT ![t] = [phase |-> "begin", i |-> 0,
                                                 abandoned |-> FALSE]]
                 /\ repo_thread' = t
            /\ multipliers' = RemoveSteeringLambdas(multipliers)
            /\ call' = [NewCall(target) EXCEPT
                          !.repositions = 1,
                          !.removed = Removes(multipliers, multipliers')]
            /\ pc' = "servo"
            /\ UNCHANGED steering_mode
       ELSE /\ Commit(target, NewCall(target))
            /\ UNCHANGED <<repo_thread, ramp>>

\* where the ramp thread of the running reposition is, as the servo command sees it
RampProgress(t) ==
    IF ramp[t].phase = "begin" \/ (ramp[t].phase = "up" /\ ramp[t].i = 0) THEN "before"
    ELSE IF ramp[t].phase \in {"up", "down", "zero"} THEN "during"
    ELSE IF ramp[t].phase = "failed" THEN "dead"
    ELSE "after"

\* lines 476-484: after the initial delay the servos are commanded to the
\* mechanical mode; the command may raise, which ends set_steering_mode with
\* the ramp thread left running
reposition_servo ==
    /\ pc = "servo"
    /\ UNCHANGED <<steering_mode, multipliers, motor_speed, motor_reposition>>
    /\ \/ /\ is_rotated' = set_mode(ServoMode(call.target))
          /\ call' = [call EXCEPT !.servo = RampProgress(repo_thread)]
          /\ pc' = "join"
          /\ UNCHANGED <<repo_thread, ramp>>
       \/ /\ is_rotated' \in {is_rotated, set_mode(ServoMode(call.target))}
          /\ call' = [call EXCEPT !.outcome = "error"]
          /\ pc' = "idle"
          /\ ramp' = [ramp EXCEPT ![repo_thread] =
                        IF @.phase \in {"done", "failed"} THEN FreeThread
                        ELSE [@ EXCEPT !.abandoned = TRUE]]
          /\ repo_thread' = 0

\* lines 485-486 and 1012-1035: join the ramp thread, then commit the mode
reposition_join ==
    /\ pc = "join"
    /\ ramp[repo_thread].phase \in {"done", "failed"}
    /\ Commit(call.target, [call EXCEPT !.joined = ramp[repo_thread].phase])
    /\ ramp' = [ramp EXCEPT ![repo_thread] = FreeThread]
    /\ repo_thread' = 0
    /\ UNCHANGED <<is_rotated, motor_speed, motor_reposition>>

\* ------------------------------------------------------ _reposition_motors

\* line 494
SpeedStep == (MaxSpeed - MinSpeed) \div RampSteps

\* line 497: Util.frange(_min_speed, _max_speed, _speed_step)
RampUpSpeed(i) == MinSpeed + i * SpeedStep

\* line 502: Util.frange(_max_speed, _min_speed, -1.0 * _speed_step)
RampDownSpeed(i) == MaxSpeed - i * SpeedStep

\* a ramp thread that ends is waited for by join(), unless the reposition that
\* started it has already ended with an error
Ended(r, phase) ==
    IF r.abandoned THEN FreeThread ELSE [r EXCEPT !.phase = phase, !.i = 0]

\* line 495: motor_controller.reposition(steering_mode)
reposition_motors_begin(t) ==
    /\ ramp[t].phase = "begin"
    /\ motor_reposition' = "MOVING"
    /\ ramp' = [ramp EXCEPT ![t].phase = "up", ![t].i = 0]
    /\ UNCHANGED <<steering_mode, is_rotated, multipliers, motor_speed, pc,
                   repo_thread, call>>

\* lines 497-500: one step of the ramp up, to PORT and to STBD
reposition_motors_up(t) ==
    /\ ramp[t].phase = "up"
    /\ motor_speed' = RampUpSpeed(ramp[t].i)
    /\ ramp' = IF ramp[t].i + 1 < RampSteps
               THEN [ramp EXCEPT ![t].i = @ + 1]
               ELSE [ramp EXCEPT ![t].phase = "down", ![t].i = 0]
    /\ UNCHANGED <<steering_mode, is_rotated, multipliers, motor_reposition, pc,
                   repo_thread, call>>

\* lines 502-505: one step of the ramp down
reposition_motors_down(t) ==
    /\ ramp[t].phase = "down"
    /\ motor_speed' = RampDownSpeed(ramp[t].i)
    /\ ramp' = IF ramp[t].i + 1 < RampSteps
               THEN [ramp EXCEPT ![t].i = @ + 1]
               ELSE [ramp EXCEPT ![t].phase = "zero", ![t].i = 0]
    /\ UNCHANGED <<steering_mode, is_rotated, multipliers, motor_reposition, pc,
                   repo_thread, call>>

\* lines 506-507: the final speed 0.0 to PORT and to STBD
reposition_motors_zero(t) ==
    /\ ramp[t].phase = "zero"
    /\ motor_speed' = 0
    /\ ramp' = [ramp EXCEPT ![t].phase = "stopped"]
    /\ UNCHANGED <<steering_mode, is_rotated, multipliers, motor_reposition, pc,
                   repo_thread, call>>

\* lines 508-511: motor_controller.reposition(Rotation.STOPPED); the callback
\* only logs; the thread ends
reposition_motors_stopped(t) ==
    /\ ramp[t].phase = "stopped"
    /\ motor_reposition' = "STOPPED"
    /\ ramp' = [ramp EXCEPT ![t] = Ended(@, "done")]
    /\ UNCHANGED <<steering_mode, is_rotated, multipliers, motor_speed, pc,
                   repo_thread, call>>

\* lines 495-508: a motor command raises inside the thread; the exception ends
\* the thread and goes no further
reposition_motors_raises(t) ==
    /\ ramp[t].phase \in {"begin", "up", "down", "zero", "stopped"}
    /\ ramp' = [ramp EXCEPT ![t] = Ended(@, "failed")]
    /\ UNCHANGED <<steering_mode, is_rotated, multipliers, motor_speed,
                   motor_reposition, pc, repo_thread, call>>

\* ------------------------------------------------------- other handlers

\* the dispatcher handles one message at a time: another handler runs only
\* when set_steering_mode is not running
OtherHandler ==
    /\ pc = "idle"
    /\ call' = NoCall
    /\ UNCHANGED <<steering_mode, is_rotated, motor_speed, motor_reposition, pc,
                   repo_thread, ramp>>

\* MotorController.clear_speed_multipliers(): every motor loses all of them
clear_speed_multipliers(mults) == [m \in Motors |-> {}]

\* a collaborator installs its named multiplier on every motor that lacks it:
\* MotorController.rotate() the "steering" one, the stop handler the "stop" one
install_on_all(mults, name) ==
    [m \in Motors |->
        IF has_speed_multiplier(mults[m], name)
        THEN mults[m]
        ELSE add_speed_multiplier(mults[m], name)]

\* lines 643-646: the HOME button clears every motor's speed multipliers
handle_gamepad_HOME_BUTTON ==
    /\ OtherHandler
    /\ multipliers' = clear_speed_multipliers(multipliers)

\* lines 257-265: L1 and R1 call motor_controller.rotate()
handle_rotate_button ==
    /\ OtherHandler
    /\ multipliers' = install_on_all(multipliers, "steering")

\* lines 197-203: a STOP message with the motors running goes to the stop handler
handle_stop ==
    /\ OtherHandler
    /\ multipliers' = install_on_all(multipliers, "stop")

\* ------------------------------------------------------------- set_heading

\* the senses of rotation a caller may pass
RotationSenses == {"CLOCKWISE", "COUNTER_CLOCKWISE"}

\* what set_heading finds of the IMU: none attached, attached but not
\* calibrated, calibrated
ImuStates == {"none", "uncalibrated", "calibrated"}

\* signed differences between the polled and the target heading that a poll
\* may give, in tenths of a degree
Differences == {-800, 0, 10, 11}

\* readings of the digital potentiometer, in thousandths
PotValues == {0, 500}

\* the largest difference, used where no difference has been recorded
NoDifference == 1800

Abs(x) == IF x < 0 THEN -x ELSE x

\* What is remembered of a set_heading call.
\*   pc: "idle" (never called), "switch" (before line 800), "switching" (inside
\*       set_steering_mode(ROTATE)), "loop", "restore" (before line 850),
\*       "restoring" (inside set_steering_mode(AFRS)), "returned", "raised"
\*   sense, imu: the rotation argument and the IMU the call found
\*   cleared: _prepare_to_move changed some motor's multipliers
\*   rotate_cmd: the last argument this call gave motor_controller.rotate()
\*   diff: the difference the last poll gave
\*   continued: the smallest absolute difference the loop has continued on
\*   in_loop: the call raised from inside the loop
\*   interrupted: the SIGINT handler has run during the loop; resumed: the loop
\*       has commanded a speed since
\*   commanded, pot: the loop has commanded a speed; the potentiometer reading
\*       of its last pass
NoHeading == [pc |-> "idle", sense |-> "CLOCKWISE", imu |-> "calibrated",
              cleared |-> FALSE, rotate_cmd |-> "NONE", diff |-> 0,
              continued |-> NoDifference, in_loop |-> FALSE,
              interrupted |-> FALSE, resumed |-> FALSE,
              commanded |-> FALSE, pot |-> 0]

\* no set_heading call is running
HeadingIdle == hd.pc \in {"idle", "returned", "raised"}

\* MotorController.rotate(STOPPED): the rotation multiplier is taken off again
remove_from_all(mults, name) ==
    [m \in Motors |-> remove_speed_multiplier(mults[m], name)]

\* lines 1067-1078: _prepare_to_move clears every motor's speed multipliers
prepare_to_move(mults) == clear_speed_multipliers(mults)

\* line 812: isclose(_diff_deg, 0.0, abs_tol=1.0), in tenths of a degree
StrictlyWithin(diff) == Abs(diff) < 10

WithinTolerance(diff) == Abs(diff) <= 10

\* lines 819-831: _target_speed * (_diff_deg / 180.0), thousandths times tenths;
\* a speed within 1e-4 of zero is commanded as 0.0, any other as it is
ScaledSpeed(pot, diff) ==
    IF diff < 0 THEN 0 - ((pot * (0 - diff)) \div 1800) ELSE (pot * diff) \div 1800

\* no rotate command is issued
NoRotation(sense) == "NONE"

\* line 803: the sense the motors are told to rotate in
RotateCommand(sense) == "CLOCKWISE"

\* lines 764-796: the potentiometer is there; _prepare_to_move; the SIGINT
\* handler is installed; the IMU must be attached and calibrated; first poll.
\* Calls are spaced: none begins while the ramp thread of an earlier, failed
\* reposition is still running.
set_heading_begin(sense, imu) ==
    /\ HeadingIdle
    /\ pc = "idle"
    /\ \A t \in ThreadIds : ramp[t].phase = "free"
    /\ multipliers' = prepare_to_move(multipliers)
    /\ \E d \in Differences :
         hd' = [NoHeading EXCEPT
                  !.pc = IF imu = "calibrated" THEN "switch" ELSE "raised",
                  !.sense = sense,
                  !.imu = imu,
                  !.cleared = (multipliers' # multipliers),
                  !.diff = IF imu = "calibrated" THEN d ELSE 0]
    /\ call' = NoCall
    /\ UNCHANGED <<steering_mode, is_rotated, motor_speed, motor_reposition, pc,
                   repo_thread, ramp, ladder, steer>>

\* line 800: set_steering_mode(SteeringMode.ROTATE)
set_heading_switch ==
    /\ hd.pc = "switch"
    /\ set_steering_mode("ROTATE")
    /\ hd' = [hd EXCEPT !.pc = "switching"]
    /\ UNCHANGED <<ladder, steer>>

\* lines 800-803: set_steering_mode has ended; if it raised so does set_heading,
\* else, after the settle delay, the rotation multipliers are installed
set_heading_rotate ==
    /\ hd.pc = "switching"
    /\ pc = "idle"
    /\ IF call.outcome = "error"
       THEN /\ hd' = [hd EXCEPT !.pc = "raised"]
            /\ UNCHANGED multipliers
       ELSE /\ hd' = [hd EXCEPT !.pc = "loop", !.rotate_cmd = RotateCommand(hd.sense)]
            /\ multipliers' = install_on_all(multipliers, "steering")
    /\ UNCHANGED <<steering_mode, is_rotated, motor_speed, motor_reposition, pc,
                   repo_thread, ramp, call, ladder, steer>>

\* lines 812-839: one pass of the loop: the potentiometer is read, the IMU is
\* polled, and the scaled speed goes to PORT and to STBD
set_heading_loop ==
    /\ hd.pc = "loop"
    /\ ~WithinTolerance(hd.diff)
    /\ \E pot \in PotValues, d \in Differences :
         /\ motor_speed' = ScaledSpeed(pot, d)
         /\ hd' = [hd EXCEPT !.diff = d,
                             !.continued = IF Abs(hd.diff) < @ THEN Abs(hd.diff) ELSE @,
                             !.resumed = @ \/ hd.interrupted,
                             !.commanded = TRUE,
                             !.pot = pot]
    /\ UNCHANGED <<steering_mode, is_rotated, multipliers, motor_reposition, pc,
                   repo_thread, ramp, call, ladder, steer>>

\* lines 808-846: the potentiometer, the IMU, a motor command or the rate wait
\* raises; the handler is for KeyboardInterrupt only, the finally clause plays
\* a sound, and the exception leaves set_heading
set_heading_loop_raises ==
    /\ hd.pc = "loop"
    /\ ~WithinTolerance(hd.diff)
    /\ hd' = [hd EXCEPT !.pc = "raised", !.in_loop = TRUE]
    /\ UNCHANGED <<modevars, ladder, steer>>

\* lines 754-762: SIGINT while the loop runs: the handler installed at line 775
\* stops the motors, disables and closes the controller, and returns to the
\* interrupted loop
rotate_sigint_handler ==
    /\ hd.pc = "loop"
    /\ ~hd.interrupted
    /\ motor_speed' = 0
    /\ hd' = [hd EXCEPT !.interrupted = TRUE]
    /\ UNCHANGED <<steering_mode, is_rotated, multipliers, motor_reposition, pc,
                   repo_thread, ramp, call, ladder, steer>>

\* lines 812 and 848-849: the difference is within tolerance, the loop is left
\* and the rotation is stopped
set_heading_exit ==
    /\ hd.pc = "loop"
    /\ WithinTolerance(hd.diff)
    /\ multipliers' = remove_from_all(multipliers, "steering")
    /\ hd' = [hd EXCEPT !.pc = "restore", !.rotate_cmd = "STOPPED"]
    /\ UNCHANGED <<steering_mode, is_rotated, motor_speed, motor_reposition, pc,
                   repo_thread, ramp, call, ladder, steer>>

\* line 850: set_steering_mode(SteeringMode.AFRS)
set_heading_restore ==
    /\ hd.pc = "restore"
    /\ set_steering_mode("AFRS")
    /\ hd' = [hd EXCEPT !.pc = "restoring"]
    /\ UNCHANGED <<ladder, steer>>

\* lines 850-851: set_steering_mode has ended; after the settle delay
\* set_heading returns, unless set_steering_mode raised
set_heading_return ==
    /\ hd.pc = "restoring"
    /\ pc = "idle"
    /\ hd' = [hd EXCEPT !.pc = IF call.outcome = "error" THEN "raised" ELSE "returned"]
    /\ UNCHANGED <<modevars, ladder, steer>>

\* --------------------------------------------------------- increment_speed

\* The Chadburn enumeration, each level with its num; STOP is the level of the
\* constructed controller, whose index is 0 (lines 147-148). The MAXIMUM levels
\* lie outside FULL_ASTERN .. FULL_AHEAD.
Chadburn ==
    [MAXIMUM_ASTERN |-> -5, FULL_ASTERN |-> -4, HALF_ASTERN |-> -3,
     SLOW_ASTERN |-> -2, DEAD_SLOW_ASTERN |-> -1, STOP |-> 0,
     DEAD_SLOW_AHEAD |-> 1, SLOW_AHEAD |-> 2, HALF_AHEAD |-> 3,
     FULL_AHEAD |-> 4, MAXIMUM_AHEAD |-> 5]

ChadburnNums == Chadburn.MAXIMUM_ASTERN .. Chadburn.MAXIMUM_AHEAD

\* the speed of each level in thousandths, from MAXIMUM_ASTERN to MAXIMUM_AHEAD
\* (SLOW_AHEAD is 0.21, line 493)
ChadburnSpeeds == <<-1000, -750, -500, -210, -70, 0, 70, 210, 500, 750, 1000>>

\* Chadburn.from_index(index).speed
ChadburnSpeed(num) == ChadburnSpeeds[num - Chadburn.MAXIMUM_ASTERN + 1]

\* Chadburn.get_closest_value(speed): the level whose speed is nearest, the
\* lowest one of two equally near
get_closest_value(speed) ==
    CHOOSE n \in ChadburnNums :
        /\ \A k \in ChadburnNums :
              Abs(ChadburnSpeed(n) - speed) <= Abs(ChadburnSpeed(k) - speed)
        /\ \A k \in ChadburnNums :
              Abs(ChadburnSpeed(k) - speed) = Abs(ChadburnSpeed(n) - speed) => n <= k

\* mean speeds motor_controller.get_mean_speed may report, in thousandths
MeasuredSpeeds == {-1000, -740, -200, 0, 60, 200, 520, 740, 1000}

\* the values the speed axis of the directional pad sends
StepValues == {-1, 1}

\* the ladder of the constructed controller (lines 147-148), no call made yet
\*   index, chadburn: self._chadburn_index and the num of self._chadburn
\*   called, value, mean, pre_index: the last increment_speed call, the mean
\*   speed it read and the index it found
NoLadder == [index |-> Chadburn.STOP, chadburn |-> Chadburn.STOP, called |-> FALSE,
             value |-> 1, mean |-> 0, pre_index |-> Chadburn.STOP]

\* lines 554-560: the index the ladder is set to before the step
KeptIndex(mean, index) == index

Resynchronised(mean, index) == get_closest_value(mean)

\* lines 561-568: the step, -1 one level up unless at or beyond FULL_AHEAD, any
\* other value one level down unless at or beyond FULL_ASTERN
Stepped(value, index) ==
    IF value = -1
    THEN IF index < Chadburn.FULL_AHEAD THEN index + 1 ELSE index
    ELSE IF index > Chadburn.FULL_ASTERN THEN index - 1 ELSE index

\* lines 546-571
increment_speed(value, mean) ==
    /\ pc = "idle"
    /\ HeadingIdle
    /\ multipliers' = prepare_to_move(multipliers)
    /\ LET index == Stepped(value, Resynchronised(mean, ladder.index))
       IN  /\ ladder' = [index |-> index, chadburn |-> index, called |-> TRUE,
                         value |-> value, mean |-> mean, pre_index |-> ladder.index]
           /\ motor_speed' = ChadburnSpeed(index)
    /\ call' = NoCall
    /\ UNCHANGED <<steering_mode, is_rotated, motor_reposition, pc, repo_thread,
                   ramp, hd, steer>>

\* ------------------------------------------------------- the steering angle

\* The SteeringAngle enumeration, each preset with its num; STRAIGHT_AHEAD is
\* the preset of the constructed controller, whose index is 0 (lines 122-123).
SteeringAngle ==
    [COUNTER_CLOCKWISE_45 |-> -3, COUNTER_CLOCKWISE_30 |-> -2,
     COUNTER_CLOCKWISE_15 |-> -1, STRAIGHT_AHEAD |-> 0, CLOCKWISE_15 |-> 1,
     CLOCKWISE_30 |-> 2, CLOCKWISE_45 |-> 3]

\* the angle of each preset in degrees, from COUNTER_CLOCKWISE_45 to CLOCKWISE_45
SteeringAngleValues == <<-45, -30, -15, 0, 15, 30, 45>>

StraightAhead(index) == SteeringAngle.STRAIGHT_AHEAD

\* SteeringAngle.from_index(index): the preset with that num
from_index(index) == index

\* the value of a preset
SteeringAngleValue(preset) ==
    SteeringAngleValues[preset - SteeringAngle.COUNTER_CLOCKWISE_45 + 1]

\* afrs_max_ratio, the ratio at maximum turn, in hundred-thousandths (line 351)
AfrsMaxRatio == 36016

\* afrs_max_angle, the maximum inner angle in degrees (line 396)
MaxAngle == 45

\* a ratio of 1.0, in hundred-thousandths
Unity == 100 * 1000

\* lines 320-345: the outer angle, in hundredths of a degree, of an inner angle
\* in degrees, for a wheel base equal to the wheel track:
\* degrees(atan2(1, 1 / tan(radians(a)) + 2))
calculate_afrs_steering(inside_steering_angle) ==
    LET outside ==
          <<
            0, 96, 186, 271, 351, 425, 496, 562,
            626, 685, 742, 796, 848, 897, 944, 989,
            1032, 1074, 1114, 1152, 1189, 1225, 1259, 1292,
            1325, 1356, 1386, 1416, 1444, 1472, 1499, 1526,
            1552, 1577, 1602, 1626, 1649, 1672, 1695, 1717,
            1739, 1761, 1782, 1802, 1823, 1843
          >>
    IN  outside[inside_steering_angle + 1]

\* line 416: int() of the outer angle, in whole degrees
Truncated(hundredths) == hundredths \div 100

\* the ratio 1.0 at every angle
Flat(value) == Unity

\* lines 348-354: 1.0 + value / 45.0 * (afrs_max_ratio - 1.0), in
\* hundred-thousandths
steering_translation(value) == (45 * Unity + value * (AfrsMaxRatio - Unity)) \div 45

\* line 111: max(min(_max_angle, n), -1.0 * _max_angle)
afrs_clamp(n) ==
    LET low == IF MaxAngle < n THEN MaxAngle ELSE n
    IN  IF low > -MaxAngle THEN low ELSE -MaxAngle

\* line 397: int(Util.remap_range(value, 0, 255, -45, 45)), int() truncating
\* towards zero
remap_range(value) ==
    LET n == value * 90 - 45 * 255
    IN  IF n >= 0 THEN n \div 255 ELSE -((-n) \div 255)

\* readings of the analog horizontal axis
AnalogValues == {70, 128, 200}

\* lines 431-449: the side of the inner wheels of a turn
AlwaysStbd(inner_angle) == "STBD"

InnerSide(inner_angle) == IF inner_angle < 0 THEN "PORT" ELSE "STBD"

\* lines 366-381: the index after the step, unchanged at the end of the range
BouncingStep(value, index) ==
    IF value = -1
    THEN IF index > SteeringAngle.COUNTER_CLOCKWISE_45 THEN index - 1 ELSE index + 1
    ELSE IF index < SteeringAngle.CLOCKWISE_45 THEN index + 1 ELSE index - 1

StepIndex(value, index) ==
    IF value = -1
    THEN IF index > SteeringAngle.COUNTER_CLOCKWISE_45 THEN index - 1 ELSE index
    ELSE IF value = 1
    THEN IF index < SteeringAngle.CLOCKWISE_45 THEN index + 1 ELSE index
    ELSE index

\* what a steering call finds when it begins
Found(s) == [index |-> s.index, preset |-> s.preset, afrs_angle |-> s.afrs_angle,
             port_ratio |-> s.port_ratio, stbd_ratio |-> s.stbd_ratio,
             mode |-> steering_mode]

\* The steering angle of the constructed controller (lines 121-128).
\*   index, preset, afrs_angle, port_ratio, stbd_ratio: _steering_angle_index,
\*     the num of _steering_angle, _afrs_angle and the two motor ratios
\*   servo: the last arguments of servo_controller.set_afrs_angle, in degrees
\*   pc, op, value, inner: the running or last steering call, its argument and
\*     the inner angle it applies
\*   pre, commands, applied, repositions: what that call found, how many
\*     set_afrs_angle commands it has issued, whether it applied its inner
\*     angle, and how many repositions its mode transitions have run
\*   solved: the angle that call gave calculate_afrs_steering, -1 for none
NoSteer ==
    [index |-> 0, preset |-> SteeringAngle.STRAIGHT_AHEAD, afrs_angle |-> 0,
     port_ratio |-> Unity, stbd_ratio |-> Unity,
     servo |-> [port |-> 0, stbd |-> 0],
     pc |-> "idle", op |-> "none", value |-> 0, inner |-> 0,
     pre |-> [index |-> 0, preset |-> SteeringAngle.STRAIGHT_AHEAD, afrs_angle |-> 0,
              port_ratio |-> Unity, stbd_ratio |-> Unity, mode |-> "NONE"],
     commands |-> 0, applied |-> FALSE, repositions |-> 0, solved |-> -1]

SteerEnded == steer.pc \in {"idle", "returned", "raised"}

\* the dispatcher handles one message at a time, and messages are spaced: a
\* handler begins when no call and no ramp thread is running
HandlerMayBegin ==
    /\ SteerEnded
    /\ HeadingIdle
    /\ pc = "idle"
    /\ \A t \in ThreadIds : ramp[t].phase = "free"

\* the record of a steering call that begins now
BeginSteer(op, value, inner) ==
    [steer EXCEPT !.pc = "switching", !.op = op, !.value = value, !.inner = inner,
                  !.pre = Found(steer), !.commands = 0, !.applied = FALSE,
                  !.repositions = 0, !.solved = -1]

\* lines 364-365 and 399-401: set_steering_mode(AFRS) unless the mode is AFRS
EnsureAfrs ==
    IF steering_mode # "AFRS"
    THEN set_steering_mode("AFRS")
    ELSE /\ call' = NoCall
         /\ UNCHANGED <<steering_mode, is_rotated, multipliers, motor_speed,
                        motor_reposition, pc, repo_thread, ramp>>

\* lines 357-365
increment_steering_angle_begin(value) ==
    /\ HandlerMayBegin
    /\ steer' = BeginSteer("increment", value, steer.inner)
    /\ EnsureAfrs
    /\ UNCHANGED <<hd, ladder>>

\* lines 366-381: set_steering_mode has ended; if it raised so does the call,
\* else the index is stepped and the preset applied, or the call is ignored
increment_steering_angle_step ==
    /\ steer.pc = "switching"
    /\ steer.op = "increment"
    /\ pc = "idle"
    /\ LET index == StepIndex(steer.value, steer.index)
       IN  steer' =
             IF call.outcome = "error"
             THEN [steer EXCEPT !.pc = "raised", !.repositions = call.repositions]
             ELSE IF index # steer.index
             THEN [steer EXCEPT !.pc = "apply",
                                !.repositions = call.repositions,
                                !.index = index,
                                !.preset = from_index(index),
                                !.inner = SteeringAngleValue(from_index(index))]
             ELSE [steer EXCEPT !.pc = "returned", !.repositions = call.repositions]
    /\ UNCHANGED <<modevars, hd, ladder>>

\* lines 387-401
set_afrs_steering_angle_begin(value) ==
    /\ HandlerMayBegin
    /\ steer' = BeginSteer("analog", value, remap_range(value))
    /\ EnsureAfrs
    /\ UNCHANGED <<hd, ladder>>

\* lines 399-402: set_steering_mode has ended; if it raised so does the call
set_afrs_steering_angle_switched ==
    /\ steer.pc = "switching"
    /\ steer.op = "analog"
    /\ pc = "idle"
    /\ steer' = [steer EXCEPT
                   !.pc = IF call.outcome = "error" THEN "raised" ELSE "apply",
                   !.repositions = call.repositions]
    /\ UNCHANGED <<modevars, hd, ladder>>

\* lines 411-413 and 459-461: a changed inner angle begins with
\* set_steering_mode(AFRS); an unchanged one resets both ratios
set_afrs_steering_angle_from_inner_angle_begin ==
    /\ steer.pc = "apply"
    /\ pc = "idle"
    /\ IF steer.inner # steer.afrs_angle
       THEN /\ set_steering_mode("AFRS")
            /\ steer' = [steer EXCEPT !.pc = "applying"]
       ELSE /\ steer' = [steer EXCEPT !.pc = "returned", !.port_ratio = Unity,
                                      !.stbd_ratio = Unity]
            /\ UNCHANGED modevars
    /\ UNCHANGED <<hd, ladder>>

\* the starboard motors slowed in a turn to either side
SlowedInEveryTurn(inner_angle) == steering_translation(Abs(inner_angle))

\* lines 429, 437 and 446: the ratio of the starboard motors, 1.0 unless they
\* are the inner ones
stbd_motor_ratio(inner_angle) ==
    IF inner_angle = 0 THEN Unity
    ELSE IF InnerSide(inner_angle) = "PORT" THEN Unity
    ELSE steering_translation(inner_angle)

\* lines 415-457: the ratios, the servo command and the applied angle
set_afrs_steering_angle_from_inner_angle_apply ==
    /\ steer.pc = "applying"
    /\ pc = "idle"
    /\ LET inner_angle == afrs_clamp(steer.inner)
           outer_angle == Truncated(calculate_afrs_steering(Abs(inner_angle)))
           port_is_inner == InnerSide(inner_angle) = "PORT"
           repositions == steer.repositions + call.repositions
       IN  steer' =
             IF call.outcome = "error"
             THEN [steer EXCEPT !.pc = "raised", !.repositions = repositions]
             ELSE [steer EXCEPT
                     !.pc = "returned",
                     !.repositions = repositions,
                     !.port_ratio =
                         IF inner_angle = 0 THEN Unity
                         ELSE IF port_is_inner THEN steering_translation(-1 * inner_angle)
                         ELSE Unity,
                     !.stbd_ratio = stbd_motor_ratio(inner_angle),
                     !.servo =
                         IF inner_angle = 0 THEN [port |-> 0, stbd |-> 0]
                         ELSE IF port_is_inner
                         THEN [port |-> inner_angle, stbd |-> outer_angle]
                         ELSE [port |-> outer_angle, stbd |-> inner_angle],
                     !.commands = @ + 1,
                     !.applied = TRUE,
                     !.solved = Abs(inner_angle),
                     !.afrs_angle = inner_angle]
    /\ UNCHANGED <<modevars, hd, ladder>>

\* inner angles _set_afrs_steering_angle_from_inner_angle may be given, some
\* beyond the configured maximum
RawAngles == {-50, 0, 45, 50}

\* line 406: _set_afrs_steering_angle_from_inner_angle(inner_angle), called
\* on its own
set_afrs_steering_angle_from_inner_angle_call(inner_angle) ==
    /\ HandlerMayBegin
    /\ steer' = [BeginSteer("apply", 0, inner_angle) EXCEPT !.pc = "apply"]
    /\ call' = NoCall
    /\ UNCHANGED <<steering_mode, is_rotated, multipliers, motor_speed,
                   motor_reposition, pc, repo_thread, ramp, hd, ladder>>

\* another handler changes the steering mode between two steering calls
set_steering_mode_between(target) ==
    /\ HandlerMayBegin
    /\ set_steering_mode(target)
    /\ steer' = [steer EXCEPT !.pc = "idle", !.op = "none", !.value = 0,
                               !.inner = 0, !.pre = NoSteer.pre, !.commands = 0,
                               !.applied = FALSE, !.repositions = 0]
    /\ UNCHANGED <<hd, ladder>>

\* ------------------------------------------------------------- components

\* no message has been dispatched (line 137: _speed_value is 0.0)
NoMessage ==
    [pc |-> "idle", event |-> "NONE", value |-> 0, local |-> "none",
     is_stopped |-> FALSE, events |-> <<>>, stop_handler |-> <<>>,
     commands |-> {}, changed |-> FALSE, forwarded |-> 0, speed_value |-> 0]

\* the motion controller as constructed: not enabled, no thread started
NoGate == [enable |-> "idle", calibration |-> FALSE, thread |-> "none"]

\* the IrqClock as constructed (irq_clock.py lines 49-56): enabled, the counter
\* at zero, no callback registered, no call made and no tick seen yet
NoCallbacks ==
    [callbacks |-> <<>>, lf_callbacks |-> <<>>, op |-> "none", callback |-> "none",
     raised |-> FALSE, registered |-> FALSE, pre |-> <<>>,
     enabled |-> TRUE, counter |-> 0, ticks |-> 0, invoked |-> <<>>]

\* no data from the sensor (None)
NoData == [fix |-> "none", altitude |-> FALSE, num_sats |-> FALSE]

\* the GPS as constructed (gps.py lines 59-76): every value None or zero
NoFix ==
    [timestamp |-> "zero", latitude |-> "zero", longitude |-> "zero",
     lat_dir |-> "zero", lon_dir |-> "zero", altitude |-> "zero",
     geo_sep |-> "zero", num_sats |-> "zero", gps_qual |-> "zero",
     speed |-> "zero", pdop |-> "zero", hdop |-> "zero", vdop |-> "zero",
     verbose |-> FALSE,
     polled |-> FALSE, update |-> FALSE, data |-> NoData, returned |-> FALSE]

\* no function has been evaluated
NoEvaluation == [name |-> "none", x |-> 0, y |-> 0, z |-> 0, result |-> 0, other |-> 0]

\* --------------------------------------------------------- process_message

\* the events dispatched here
Events ==
    {"STOP", "BUMPER", "IMU", "A_BUTTON", "B_BUTTON", "R1_BUTTON", "HOME_BUTTON",
     "DPAD_RIGHT", "DPAD_UP", "L3_VERTICAL", "OTHER"}

\* the values of a button or D-pad message
ButtonValues == {0, 1}

\* batches of bumper contacts, each contact by its priority (lines 211-223):
\* 4 for a bumper, 10 for a forward oblique contact
BumperBatches == {<<4>>, <<10>>, <<4, 10>>, <<10, 4>>, <<4, 4>>}

\* mean speeds read while a D-pad speed message is handled, in thousandths
DispatchedSpeeds == {1000}

\* the values of the D-pad steering messages dispatched
DispatchedSteps == {1}

\* the reading of the analog vertical axis dispatched, near its centre (the
\* whole range is evaluated with change_speed on its own)
AxisValues == {100}

\* every event no branch names takes the rotate branch
RotateByDefault(event) ==
    IF event \in {"R1_BUTTON", "OTHER"} THEN "rotate" ELSE "unrecognised"

\* lines 197-311: the branch of the if/elif chain an event takes
Selected(event) ==
    CASE event = "STOP" -> "stop"
      [] event = "BUMPER" -> "bumper"
      [] event = "IMU" -> "imu"
      [] event = "A_BUTTON" -> "task"
      [] event \in {"B_BUTTON", "START_BUTTON"} -> "logged"
      [] event \in {"L1_BUTTON", "R1_BUTTON"} -> "rotate"
      [] event = "HOME_BUTTON" -> "home"
      [] event \in {"DPAD_LEFT", "DPAD_RIGHT"} -> "steering"
      [] event \in {"DPAD_UP", "DPAD_DOWN"} -> "speed"
      [] event = "L3_VERTICAL" -> "analog"
      [] OTHER -> "unrecognised"

\* lines 224-226: the priority the loop over the batch ends with
RECURSIVE min_priority(_, _)
min_priority(priority, events) ==
    IF events = <<>> THEN priority
    ELSE min_priority(IF Head(events) < priority THEN Head(events) ELSE priority,
                      Tail(events))

\* lines 230-235: the stop handler method a bumper batch leads to
BumperCall(events) == IF min_priority(0, events) = 10 THEN "halt" ELSE "stop"

\* a stop-type message acted on whatever the motors report
ActsAlways(value, is_stopped) == TRUE

\* lines 198-199 and 238: a stop-type message is acted on with value 0 and the
\* motors not stopped
ActsOnStop(value, is_stopped) == value = 0 /\ ~is_stopped

\* round(n / 16), halves to the even neighbour
RoundHalfEven16(n) ==
    LET a == Abs(n)
        q == a \div 16
        r == a % 16
        up == r > 8 \/ (r = 8 /\ q % 2 = 1)
        m == IF up THEN q + 1 ELSE q
    IN  IF n < 0 THEN -m ELSE m

\* line 112: max(min(7, n), -7)
incr_clamp(n) == IF n > 7 THEN 7 ELSE IF n < -7 THEN -7 ELSE n

\* the increment with the velocity rounded to the nearest step
RoundedIncrement(value) == incr_clamp(RoundHalfEven16(127 - value))

\* lines 528 and 532: _incr_clamp(int(_vel / 16.0)), int() truncating towards
\* zero
Increment(value) ==
    LET vel == 127 - value
    IN  incr_clamp(IF vel >= 0 THEN vel \div 16 ELSE -((-vel) \div 16))

\* lines 527 and 533: the speed delta in millionths (_scale_factor is
\* 0.01428 / 5.0)
SpeedDelta(value) == Increment(value) * 2856

\* line 535: not isclose(_speed_delta, 0.0, abs_tol=1e-2)
Negligible(delta) == Abs(delta) <= 10000

\* a speed in millionths to the nearest thousandth
Thousandths(millionths) ==
    IF millionths >= 0 THEN (millionths + 500) \div 1000
    ELSE -((500 - millionths) \div 1000)

\* lines 535-540: each motor's target speed after change_speed(value)
ChangedSpeed(value, speed) ==
    IF Negligible(SpeedDelta(value)) THEN speed
    ELSE speed + Thousandths(SpeedDelta(value))

\* what the handlers act on: the steering mode, the servos, the motors'
\* multipliers and speed, the steering angle and the speed ladder
Controlled ==
    <<steering_mode, is_rotated, multipliers, motor_speed, motor_reposition,
      steer.index, steer.preset, steer.afrs_angle, steer.port_ratio,
      steer.stbd_ratio, steer.servo, ladder.index, ladder.chadburn>>

\* a steering, speed or heading call once the message it served is done with
SettledSteer ==
    [steer EXCEPT !.pc = "idle", !.op = "none", !.value = 0, !.inner = 0,
                  !.pre = NoSteer.pre, !.commands = 0, !.applied = FALSE,
                  !.repositions = 0]

SettledLadder ==
    [NoLadder EXCEPT !.index = ladder.index, !.chadburn = ladder.chadburn]

\* the dispatcher handles one message at a time
MessageMayBegin ==
    /\ disp.pc \in {"idle", "done", "raised"}
    /\ HandlerMayBegin

\* lines 189-195: the record of a message whose handling begins
Received(event, value, local) ==
    [NoMessage EXCEPT !.pc = "handling", !.event = event, !.value = value,
                      !.local = local, !.speed_value = disp.speed_value]

\* a handler that runs no steering, speed or heading call
Handled(message, mults) ==
    /\ multipliers' = mults
    /\ call' = NoCall
    /\ UNCHANGED <<steering_mode, is_rotated, motor_speed, motor_reposition, pc,
                   repo_thread, ramp, hd, ladder, steer>>
    /\ disp' = [message EXCEPT
                  !.changed = \/ Controlled' # Controlled
                              \/ message.speed_value # disp.speed_value]

\* lines 197-203: STOP
process_message_STOP(event, value, is_stopped) ==
    /\ MessageMayBegin
    /\ Selected(event) = "stop"
    /\ LET acts == ActsOnStop(value, is_stopped)
       IN  Handled([Received(event, value, "atomic") EXCEPT
                      !.is_stopped = is_stopped,
                      !.stop_handler = IF acts THEN <<"process_message">> ELSE <<>>],
                   IF acts THEN install_on_all(multipliers, "stop") ELSE multipliers)

\* lines 205-235: BUMPER
process_message_BUMPER(event, events) ==
    /\ MessageMayBegin
    /\ Selected(event) = "bumper"
    /\ Handled([Received(event, 0, "atomic") EXCEPT
                  !.events = events,
                  !.stop_handler = <<BumperCall(events)>>],
               install_on_all(multipliers, "stop"))

\* lines 237-242 and 598-601: IMU
process_message_IMU(event, is_stopped) ==
    /\ MessageMayBegin
    /\ Selected(event) = "imu"
    /\ LET acts == ActsOnStop(0, is_stopped)
       IN  Handled([Received(event, 0, "atomic") EXCEPT
                      !.is_stopped = is_stopped,
                      !.stop_handler = IF acts THEN <<"stop">> ELSE <<>>],
                   IF acts THEN install_on_all(multipliers, "stop") ELSE multipliers)

\* lines 253-255 and 280-281: B_BUTTON and START_BUTTON are only logged
process_message_logged(event, value) ==
    /\ MessageMayBegin
    /\ Selected(event) = "logged"
    /\ Handled(Received(event, value, "atomic"), multipliers)

\* lines 257-265: L1_BUTTON and R1_BUTTON call motor_controller.rotate()
process_message_rotate(event, value) ==
    /\ MessageMayBegin
    /\ Selected(event) = "rotate"
    /\ Handled([Received(event, value, "atomic") EXCEPT
                  !.commands = IF value = 0 THEN {"rotate"} ELSE {}],
               IF value = 0 THEN install_on_all(multipliers, "steering")
               ELSE multipliers)

\* lines 284-286 and 643-646: HOME_BUTTON
process_message_HOME_BUTTON(event, value) ==
    /\ MessageMayBegin
    /\ Selected(event) = "home"
    /\ Handled([Received(event, value, "atomic") EXCEPT
                  !.commands = IF value = 0 THEN {"clear_speed_multipliers"} ELSE {}],
               IF value = 0 THEN clear_speed_multipliers(multipliers)
               ELSE multipliers)

\* lines 294-297 and 521-543: L3_VERTICAL; a changed sample goes to
\* change_speed, which commands each motor to its target speed plus the delta
process_message_L3_VERTICAL(event, value) ==
    /\ MessageMayBegin
    /\ Selected(event) = "analog"
    /\ LET new == value # disp.speed_value
           moves == new /\ ~Negligible(SpeedDelta(value))
           message == [Received(event, value, "atomic") EXCEPT
                         !.commands = (IF new THEN {"clear_speed_multipliers"} ELSE {})
                                      \cup (IF moves THEN {"set_motor_speed"} ELSE {}),
                         !.speed_value = value]
       IN  /\ multipliers' = IF new THEN prepare_to_move(multipliers) ELSE multipliers
           /\ motor_speed' = IF new THEN ChangedSpeed(value, motor_speed) ELSE motor_speed
           /\ call' = NoCall
           /\ UNCHANGED <<steering_mode, is_rotated, motor_reposition, pc,
                          repo_thread, ramp, hd, ladder, steer>>
           /\ disp' = [message EXCEPT
                         !.changed = \/ Controlled' # Controlled
                                     \/ message.speed_value # disp.speed_value]

\* lines 310-311: an event no branch matches is logged
process_message_unrecognised(event, value) ==
    /\ MessageMayBegin
    /\ Selected(event) = "unrecognised"
    /\ Handled(Received(event, value, "atomic"), multipliers)

\* lines 291-292: DPAD_UP and DPAD_DOWN
process_message_DPAD_speed(event, value, mean) ==
    /\ MessageMayBegin
    /\ Selected(event) = "speed"
    /\ increment_speed(value, mean)
    /\ disp' = [Received(event, value, "atomic") EXCEPT
                  !.commands = {"clear_speed_multipliers", "set_speed"},
                  !.changed = TRUE]

\* lines 288-289: DPAD_LEFT and DPAD_RIGHT
process_message_DPAD_steering(event, value) ==
    /\ MessageMayBegin
    /\ Selected(event) = "steering"
    /\ increment_steering_angle_begin(value)
    /\ disp' = Received(event, value, "steering")

\* the task the A button runs: set_heading (tasks 3 to 6) or a sound or listing
Tasks == {"heading", "sound"}

\* lines 248-251 and 679-699: A_BUTTON runs the selected task
process_message_A_BUTTON(event, value, task, imu) ==
    /\ MessageMayBegin
    /\ Selected(event) = "task"
    /\ IF value = 0 /\ task = "heading"
       THEN /\ set_heading_begin("CLOCKWISE", imu)
            /\ disp' = Received(event, value, "heading")
       ELSE Handled(Received(event, value, "atomic"), multipliers)

\* the local handler of the message has returned or raised
LocalEnded ==
    /\ pc = "idle"
    /\ CASE disp.local = "steering" -> steer.pc \in {"returned", "raised"}
         [] disp.local = "heading" -> hd.pc \in {"returned", "raised"}
         [] OTHER -> TRUE

LocalRaised ==
    CASE disp.local = "steering" -> steer.pc = "raised"
      [] disp.local = "heading" -> hd.pc = "raised"
      [] OTHER -> FALSE

\* the message is done with
Dispatched(message) ==
    /\ disp' = message
    /\ hd' = NoHeading
    /\ steer' = SettledSteer
    /\ ladder' = SettledLadder
    /\ call' = NoCall
    /\ UNCHANGED <<steering_mode, is_rotated, multipliers, motor_speed,
                   motor_reposition, pc, repo_thread, ramp>>

\* lines 313-315: await Subscriber.process_message(self, message)
process_message_forward ==
    /\ disp.pc = "handling"
    /\ LocalEnded
    /\ ~LocalRaised
    /\ Dispatched([disp EXCEPT !.pc = "done", !.forwarded = @ + 1])

\* an exception of the local handler leaves process_message
process_message_raises ==
    /\ disp.pc = "handling"
    /\ LocalEnded
    /\ LocalRaised
    /\ Dispatched([disp EXCEPT !.pc = "raised"])

\* ------------------------------------------------------------------ enable

\* whether initial calibration is configured (line 1122: _initial_calibration)
Calibrations == BOOLEAN

\* lines 1106-1129 and 1132-1138: enable() enables the controllers and the
\* subscriber; with initial calibration it starts the daemon thread
\* 'wait-for-pushbutton' and returns
enable(initial_calibration) ==
    /\ gate.enable = "idle"
    /\ gate' = [enable |-> "returned", calibration |-> initial_calibration,
                thread |-> IF initial_calibration THEN "waiting" ELSE "none"]
    /\ UNCHANGED <<modevars, hd, ladder, steer, disp, irq, gps, fn>>

\* lines 1140-1150: the thread sees the button pushed and released, sleeps and
\* calls the callback
wait_til_pushbutton_callback ==
    /\ gate.thread = "waiting"
    /\ gate' = [gate EXCEPT !.thread = "callback"]
    /\ UNCHANGED <<modevars, hd, ladder, steer, disp, irq, gps, fn>>

\* lines 909-920: calibrate_imu returns and the thread ends
calibrate_imu_returns ==
    /\ gate.thread = "callback"
    /\ gate' = [gate EXCEPT !.thread = "done"]
    /\ UNCHANGED <<modevars, hd, ladder, steer, disp, irq, gps, fn>>

\* line 1120: messages reach process_message once the subscriber is enabled
Subscribed == gate.enable = "returned"

\* -------------------------------------------------------- steering solvers

\* math.tan(math.radians(d)) for d = 1 .. 89 degrees, in ten-thousandths
Tan ==
    <<
      175, 349, 524, 699, 875, 1051, 1228, 1405, 1584, 1763,
      1944, 2126, 2309, 2493, 2679, 2867, 3057, 3249, 3443, 3640,
      3839, 4040, 4245, 4452, 4663, 4877, 5095, 5317, 5543, 5774,
      6009, 6249, 6494, 6745, 7002, 7265, 7536, 7813, 8098, 8391,
      8693, 9004, 9325, 9657, 10000, 10355, 10724, 11106, 11504, 11918,
      12349, 12799, 13270, 13764, 14281, 14826, 15399, 16003, 16643, 17321,
      18040, 18807, 19626, 20503, 21445, 22460, 23559, 24751, 26051, 27475,
      29042, 30777, 32709, 34874, 37321, 40108, 43315, 47046, 51446, 56713,
      63138, 71154, 81443, 95144, 114301, 143007, 190811, 286363, 572900
    >>

\* half the wheel base and half the wheel track (lines 96-97), in millimetres
HalfLengths == {60, 100}
HalfWidths == {50, 100}

\* the inner angles evaluated, in whole degrees
InnerAngles == 0 .. 89

\* line 331: _half_length / tan(radians(angle)), in hundredths of a millimetre
InsideDistance(angle, half_length) == (half_length * 1000000) \div Tan[angle]

\* the outer angle is returned unchanged
SameAsInside(inside_steering_angle, half_length, half_width) == inside_steering_angle

\* lines 327-345: the whole degrees of
\* degrees(atan2(half_length, half_length / tan(radians(a)) + 2 * half_width)),
\* i.e. the largest angle whose inside distance is at least the outside
\* distance of line 336; 0 for the angle 0 (lines 327-328)
outside_steering_angle(inside_steering_angle, half_length, half_width) ==
    IF inside_steering_angle = 0 THEN 0
    ELSE LET outside_distance == InsideDistance(inside_steering_angle, half_length)
                                    + half_width * 2 * 100
             reached == {d \in 1 .. 89 : InsideDistance(d, half_length) >= outside_distance}
         IN  IF reached = {} THEN 0
             ELSE CHOOSE d \in reached : \A other \in reached : other <= d

\* a call of calculate_afrs_steering with a geometry
calculate_afrs_steering_call(inside_steering_angle, half_length, half_width) ==
    /\ fn' = [name |-> "calculate_afrs_steering", x |-> inside_steering_angle,
              y |-> half_length, z |-> half_width,
              result |-> outside_steering_angle(inside_steering_angle, half_length,
                                                half_width),
              other |-> 0]
    /\ UNCHANGED <<modevars, hd, ladder, steer, disp, gate, irq, gps>>

\* a call of steering_translation for two angles u <= v of 0 .. 45 degrees
steering_translation_call(u, v) ==
    /\ u <= v
    /\ fn' = [name |-> "steering_translation", x |-> u, y |-> v, z |-> 0,
              result |-> steering_translation(u), other |-> steering_translation(v)]
    /\ UNCHANGED <<modevars, hd, ladder, steer, disp, gate, irq, gps>>

\* ----------------------------------------------------------------- IrqClock

\* the functions registered as callbacks
Callbacks == {"a", "b", "c"}

\* callback in list
Registered(list, callback) == \E i \in 1 .. Len(list) : list[i] = callback

\* list.remove(callback): the list without the first occurrence of callback
RECURSIVE Removed(_, _)
Removed(list, callback) ==
    IF list = <<>> THEN <<>>
    ELSE IF Head(list) = callback THEN Tail(list)
    ELSE <<Head(list)>> \o Removed(Tail(list), callback)

\* the record of a registry call on a list
Called(op, callback, list) ==
    [irq EXCEPT !.op = op, !.callback = callback, !.pre = list,
                !.registered = Registered(list, callback), !.raised = FALSE,
                !.invoked = <<>>]

\* irq_clock.py lines 94-106: add_callback raises for a callback already in the
\* list and appends it otherwise
add_callback(callback) ==
    /\ irq' = IF Registered(irq.callbacks, callback)
              THEN [Called("add_callback", callback, irq.callbacks) EXCEPT
                      !.raised = TRUE]
              ELSE [Called("add_callback", callback, irq.callbacks) EXCEPT
                      !.callbacks = Append(@, callback)]
    /\ UNCHANGED <<modevars, hd, ladder, steer, disp, gate, gps, fn>>

\* irq_clock.py lines 109-121: the same on the low-frequency list
add_low_frequency_callback(callback) ==
    /\ irq' = IF Registered(irq.lf_callbacks, callback)
              THEN [Called("add_low_frequency_callback", callback, irq.lf_callbacks)
                      EXCEPT !.raised = TRUE]
              ELSE [Called("add_low_frequency_callback", callback, irq.lf_callbacks)
                      EXCEPT !.lf_callbacks = Append(@, callback)]
    /\ UNCHANGED <<modevars, hd, ladder, steer, disp, gate, gps, fn>>

\* irq_clock.py lines 124-131: list.remove(callback) raises ValueError for a
\* callback that is not in the list
remove_callback(callback) ==
    /\ irq' = IF Registered(irq.callbacks, callback)
              THEN [Called("remove_callback", callback, irq.callbacks) EXCEPT
                      !.callbacks = Removed(@, callback)]
              ELSE [Called("remove_callback", callback, irq.callbacks) EXCEPT
                      !.raised = TRUE]
    /\ UNCHANGED <<modevars, hd, ladder, steer, disp, gate, gps, fn>>

\* the calls of the functions of a list, in the order of the list
Invocations(name, list) ==
    [i \in 1 .. Len(list) |-> [list |-> name, callback |-> list[i]]]

\* a divider that fires on the last tick of each period instead of the first
DueAfter(counter) == counter % FreqDivider = FreqDivider - 1

\* irq_clock.py line 138: the low-frequency callbacks are due when the value
\* next() takes from the counter is a multiple of the divider
Due(counter) == counter % FreqDivider = 0

\* the record of a call that is not a registry call
Signalled(op) ==
    [irq EXCEPT !.op = op, !.callback = "none", !.pre = <<>>,
                !.registered = FALSE, !.raised = FALSE, !.invoked = <<>>]

\* irq_clock.py lines 134-140: an interrupt. An enabled clock calls the
\* callbacks, takes the next value of the counter and calls the low-frequency
\* callbacks when it is due; a disabled clock does nothing
callback_method ==
    /\ irq.enabled => irq.counter < MaxTicks
    /\ irq' = IF irq.enabled
              THEN [Signalled("tick") EXCEPT
                      !.invoked = Invocations("callbacks", irq.callbacks)
                          \o (IF Due(irq.counter)
                              THEN Invocations("lf_callbacks", irq.lf_callbacks)
                              ELSE <<>>),
                      !.counter = @ + 1,
                      !.ticks = @ + 1]
              ELSE Signalled("tick")
    /\ UNCHANGED <<modevars, hd, ladder, steer, disp, gate, gps, fn>>

\* irq_clock.py lines 70-72: enable() enables the component
irq_enable ==
    /\ irq' = [Signalled("enable") EXCEPT !.enabled = TRUE]
    /\ UNCHANGED <<modevars, hd, ladder, steer, disp, gate, gps, fn>>

\* disable() of the component the IrqClock extends (irq_clock.py line 23)
irq_disable ==
    /\ irq' = [Signalled("disable") EXCEPT !.enabled = FALSE]
    /\ UNCHANGED <<modevars, hd, ladder, steer, disp, gate, gps, fn>>

\* ---------------------------------------------------------------------- GPS

\* the fixes the sensor delivers; a value of the GPS is "zero" (None, 0, 0.0 or
\* 'na') or the fix it was read from
Fixes == {"a", "b", "c"}

\* self._gps.data: None, or a fix with or without an altitude and a satellite
\* count
SensorData ==
    {NoData} \cup [fix : Fixes, altitude : BOOLEAN, num_sats : BOOLEAN]

\* gps.py lines 78-79
set_verbose(verbose) ==
    /\ gps' = [gps EXCEPT !.verbose = verbose]
    /\ UNCHANGED <<modevars, hd, ladder, steer, disp, gate, irq, fn>>

\* gps.py lines 135-190: poll
poll(result, data) ==
    /\ gps' = IF result /\ data # NoData
              THEN [gps EXCEPT
                      !.timestamp = data.fix, !.latitude = data.fix,
                      !.longitude = data.fix, !.lat_dir = data.fix,
                      !.lon_dir = data.fix,
                      !.altitude = IF data.altitude THEN data.fix ELSE "zero",
                      !.geo_sep = data.fix,
                      !.num_sats = IF data.num_sats THEN data.fix ELSE "zero",
                      !.gps_qual = data.fix, !.speed = data.fix,
                      !.pdop = data.fix, !.hdop = data.fix, !.vdop = data.fix,
                      !.polled = TRUE, !.update = result, !.data = data,
                      !.returned = TRUE]
              ELSE [gps EXCEPT
                      !.timestamp = "zero", !.latitude = "zero",
                      !.longitude = "zero", !.lat_dir = "zero",
                      !.lon_dir = "zero", !.altitude = "zero",
                      !.geo_sep = "zero", !.num_sats = "zero",
                      !.gps_qual = "zero",
                      !.polled = TRUE, !.update = result, !.data = data,
                      !.returned = FALSE]
    /\ UNCHANGED <<modevars, hd, ladder, steer, disp, gate, irq, fn>>

\* ------------------------------------------------------------ change_speed

\* raw readings of the analog vertical axis
RawValues == 0 .. 255

\* lines 521-543: change_speed(value), called on its own: _prepare_to_move,
\* then each motor is commanded to its target speed plus the delta unless the
\* delta is negligible
change_speed(value) ==
    /\ HandlerMayBegin
    /\ Abs(ChangedSpeed(value, motor_speed)) <= TargetBound
    /\ multipliers' = prepare_to_move(multipliers)
    /\ motor_speed' = ChangedSpeed(value, motor_speed)
    /\ fn' = [name |-> "change_speed", x |-> value, y |-> motor_speed,
              z |-> IF Negligible(SpeedDelta(value)) THEN 0 ELSE 1,
              result |-> Increment(value), other |-> SpeedDelta(value)]
    /\ call' = NoCall
    /\ UNCHANGED <<steering_mode, is_rotated, motor_reposition, pc, repo_thread,
                   ramp, hd, ladder, steer, disp, gate, irq, gps>>

\* ------------------------------------------------------------ specification

Init ==
    /\ steering_mode = "NONE"
    /\ is_rotated = FALSE
    /\ multipliers = [m \in Motors |-> {}]
    /\ motor_speed = 0
    /\ motor_reposition = "NONE"
    /\ pc = "idle"
    /\ repo_thread = 0
    /\ ramp = [t \in ThreadIds |-> FreeThread]
    /\ call = NoCall
    /\ hd = NoHeading
    /\ ladder = NoLadder
    /\ steer = NoSteer
    /\ disp = NoMessage
    /\ gate = NoGate
    /\ irq = NoCallbacks
    /\ gps = NoFix
    /\ fn = NoEvaluation

\* one step of a ramp thread
RampThread ==
    \/ \E t \in ThreadIds : reposition_motors_begin(t)
    \/ \E t \in ThreadIds : reposition_motors_up(t)
    \/ \E t \in ThreadIds : reposition_motors_down(t)
    \/ \E t \in ThreadIds : reposition_motors_zero(t)
    \/ \E t \in ThreadIds : reposition_motors_stopped(t)
    \/ \E t \in ThreadIds : reposition_motors_raises(t)

\* one step of a ramp thread none of whose motor commands raises
RampCompleting ==
    \/ \E t \in ThreadIds : reposition_motors_begin(t)
    \/ \E t \in ThreadIds : reposition_motors_up(t)
    \/ \E t \in ThreadIds : reposition_motors_down(t)
    \/ \E t \in ThreadIds : reposition_motors_zero(t)
    \/ \E t \in ThreadIds : reposition_motors_stopped(t)

\* the steering-mode state machine on its own: mode changes, the HOME, L1/R1
\* and STOP handlers, and the ramp thread
Next ==
    \/ (\E target \in ModeArguments : set_steering_mode(target))
          /\ UNCHANGED <<hd, ladder, steer, sidevars>>
    \/ reposition_servo /\ UNCHANGED <<hd, ladder, steer, sidevars>>
    \/ reposition_join /\ UNCHANGED <<hd, ladder, steer, sidevars>>
    \/ RampThread /\ UNCHANGED <<hd, ladder, steer, sidevars>>
    \/ handle_gamepad_HOME_BUTTON /\ UNCHANGED <<hd, ladder, steer, sidevars>>
    \/ handle_rotate_button /\ UNCHANGED <<hd, ladder, steer, sidevars>>
    \/ handle_stop /\ UNCHANGED <<hd, ladder, steer, sidevars>>

Spec == Init /\ [][Next]_vars

\* set_heading calls in a row, each with the mode transitions and the ramp
\* threads it runs
NextHeading ==
    \/ (\E sense \in RotationSenses, imu \in ImuStates : set_heading_begin(sense, imu)) /\ UNCHANGED sidevars
    \/ set_heading_switch /\ UNCHANGED sidevars
    \/ set_heading_rotate /\ UNCHANGED sidevars
    \/ set_heading_loop /\ UNCHANGED sidevars
    \/ set_heading_loop_raises /\ UNCHANGED sidevars
    \/ rotate_sigint_handler /\ UNCHANGED sidevars
    \/ set_heading_exit /\ UNCHANGED sidevars
    \/ set_heading_restore /\ UNCHANGED sidevars
    \/ set_heading_return /\ UNCHANGED sidevars
    \/ reposition_servo /\ UNCHANGED <<hd, ladder, steer, sidevars>>
    \/ reposition_join /\ UNCHANGED <<hd, ladder, steer, sidevars>>
    \/ RampThread /\ UNCHANGED <<hd, ladder, steer, sidevars>>

SpecHeading == Init /\ [][NextHeading]_vars

\* increment_speed calls in a row, each with the mean speed it reads
NextLadder ==
    (\E value \in StepValues, mean \in MeasuredSpeeds : increment_speed(value, mean))
        /\ UNCHANGED sidevars

SpecLadder == Init /\ [][NextLadder]_vars

\* steering-angle steps and analog steering, with mode changes in between, the
\* mode transitions they run and their ramp threads
NextSteering ==
    \/ (\E value \in StepValues : increment_steering_angle_begin(value)) /\ UNCHANGED sidevars
    \/ increment_steering_angle_step /\ UNCHANGED sidevars
    \/ (\E value \in AnalogValues : set_afrs_steering_angle_begin(value)) /\ UNCHANGED sidevars
    \/ set_afrs_steering_angle_switched /\ UNCHANGED sidevars
    \/ set_afrs_steering_angle_from_inner_angle_begin /\ UNCHANGED sidevars
    \/ set_afrs_steering_angle_from_inner_angle_apply /\ UNCHANGED sidevars
    \/ (\E target \in SteeringModes : set_steering_mode_between(target)) /\ UNCHANGED sidevars
    \/ reposition_servo /\ UNCHANGED <<hd, ladder, steer, sidevars>>
    \/ reposition_join /\ UNCHANGED <<hd, ladder, steer, sidevars>>
    \/ RampThread /\ UNCHANGED <<hd, ladder, steer, sidevars>>

SpecSteering == Init /\ [][NextSteering]_vars

\* readings of the analog horizontal axis: every eighth value of its range, its
\* upper end and the readings about its centre that give -1 and 1 degree
AxisReadings == {value \in RawValues : value % 8 = 0} \cup {124, 131, 255}

\* readings of the analog horizontal axis and steps of the directional pad,
\* one after another; with no other mode set in between, the servos are never
\* repositioned
NextAngles ==
    \/ (\E value \in StepValues : increment_steering_angle_begin(value)) /\ UNCHANGED sidevars
    \/ increment_steering_angle_step /\ UNCHANGED sidevars
    \/ (\E value \in AxisReadings : set_afrs_steering_angle_begin(value)) /\ UNCHANGED sidevars
    \/ set_afrs_steering_angle_switched /\ UNCHANGED sidevars
    \/ set_afrs_steering_angle_from_inner_angle_begin /\ UNCHANGED sidevars
    \/ set_afrs_steering_angle_from_inner_angle_apply /\ UNCHANGED sidevars

SpecAngles == Init /\ [][NextAngles]_vars

\* inner angles applied one after another, with mode changes in between
NextApply ==
    \/ (\E inner_angle \in RawAngles :
            set_afrs_steering_angle_from_inner_angle_call(inner_angle))
          /\ UNCHANGED sidevars
    \/ set_afrs_steering_angle_from_inner_angle_begin /\ UNCHANGED sidevars
    \/ set_afrs_steering_angle_from_inner_angle_apply /\ UNCHANGED sidevars
    \/ (\E target \in SteeringModes : set_steering_mode_between(target)) /\ UNCHANGED sidevars
    \/ reposition_servo /\ UNCHANGED <<hd, ladder, steer, sidevars>>
    \/ reposition_join /\ UNCHANGED <<hd, ladder, steer, sidevars>>
    \/ RampThread /\ UNCHANGED <<hd, ladder, steer, sidevars>>

SpecApply == Init /\ [][NextApply]_vars

\* messages dispatched one after another, with the calls, mode transitions and
\* ramp threads their handlers run
NextDispatch ==
    \/ (\E event \in Events, value \in ButtonValues, is_stopped \in BOOLEAN :
            process_message_STOP(event, value, is_stopped))
          /\ UNCHANGED <<gate, irq, gps, fn>>
    \/ (\E event \in Events, events \in BumperBatches :
            process_message_BUMPER(event, events))
          /\ UNCHANGED <<gate, irq, gps, fn>>
    \/ (\E event \in Events, is_stopped \in BOOLEAN :
            process_message_IMU(event, is_stopped))
          /\ UNCHANGED <<gate, irq, gps, fn>>
    \/ (\E event \in Events, value \in ButtonValues :
            process_message_logged(event, value))
          /\ UNCHANGED <<gate, irq, gps, fn>>
    \/ (\E event \in Events, value \in ButtonValues :
            process_message_rotate(event, value))
          /\ UNCHANGED <<gate, irq, gps, fn>>
    \/ (\E event \in Events, value \in ButtonValues :
            process_message_HOME_BUTTON(event, value))
          /\ UNCHANGED <<gate, irq, gps, fn>>
    \/ (\E event \in Events, value \in AxisValues :
            process_message_L3_VERTICAL(event, value))
          /\ UNCHANGED <<gate, irq, gps, fn>>
    \/ (\E event \in Events, value \in ButtonValues :
            process_message_unrecognised(event, value))
          /\ UNCHANGED <<gate, irq, gps, fn>>
    \/ (\E event \in Events, value \in StepValues, mean \in DispatchedSpeeds :
            process_message_DPAD_speed(event, value, mean))
          /\ UNCHANGED <<gate, irq, gps, fn>>
    \/ (\E event \in Events, value \in DispatchedSteps :
            process_message_DPAD_steering(event, value))
          /\ UNCHANGED <<gate, irq, gps, fn>>
    \/ (\E event \in Events, value \in ButtonValues, task \in Tasks, imu \in ImuStates :
            process_message_A_BUTTON(event, value, task, imu))
          /\ UNCHANGED <<gate, irq, gps, fn>>
    \/ process_message_forward /\ UNCHANGED <<gate, irq, gps, fn>>
    \/ process_message_raises /\ UNCHANGED <<gate, irq, gps, fn>>
    \/ increment_steering_angle_step /\ UNCHANGED sidevars
    \/ set_afrs_steering_angle_from_inner_angle_begin /\ UNCHANGED sidevars
    \/ set_afrs_steering_angle_from_inner_angle_apply /\ UNCHANGED sidevars
    \/ set_heading_switch /\ UNCHANGED sidevars
    \/ set_heading_rotate /\ UNCHANGED sidevars
    \/ set_heading_loop /\ UNCHANGED sidevars
    \/ set_heading_exit /\ UNCHANGED sidevars
    \/ set_heading_restore /\ UNCHANGED sidevars
    \/ set_heading_return /\ UNCHANGED sidevars
    \/ reposition_servo /\ UNCHANGED <<hd, ladder, steer, sidevars>>
    \/ reposition_join /\ UNCHANGED <<hd, ladder, steer, sidevars>>
    \/ RampCompleting /\ UNCHANGED <<hd, ladder, steer, sidevars>>

SpecDispatch == Init /\ [][NextDispatch]_vars

\* the controller is enabled and then handles messages that run no steering,
\* speed or heading call, next to the push-button thread
NextStartup ==
    \/ \E initial_calibration \in Calibrations : enable(initial_calibration)
    \/ wait_til_pushbutton_callback
    \/ calibrate_imu_returns
    \/ /\ Subscribed
       /\ (\E event \in Events, value \in ButtonValues, is_stopped \in BOOLEAN :
               process_message_STOP(event, value, is_stopped))
       /\ UNCHANGED <<gate, irq, gps, fn>>
    \/ /\ Subscribed
       /\ (\E event \in Events, events \in BumperBatches :
               process_message_BUMPER(event, events))
       /\ UNCHANGED <<gate, irq, gps, fn>>
    \/ /\ Subscribed
       /\ (\E event \in Events, value \in ButtonValues :
               process_message_rotate(event, value))
       /\ UNCHANGED <<gate, irq, gps, fn>>
    \/ /\ Subscribed
       /\ (\E event \in Events, value \in ButtonValues :
               process_message_HOME_BUTTON(event, value))
       /\ UNCHANGED <<gate, irq, gps, fn>>
    \/ /\ Subscribed
       /\ (\E event \in Events, value \in AxisValues :
               process_message_L3_VERTICAL(event, value))
       /\ UNCHANGED <<gate, irq, gps, fn>>
    \/ process_message_forward /\ UNCHANGED <<gate, irq, gps, fn>>

SpecStartup == Init /\ [][NextStartup]_vars

\* calculate_afrs_steering evaluated over inner angles and geometries
NextSolver ==
    \E inside_steering_angle \in InnerAngles, half_length \in HalfLengths,
       half_width \in HalfWidths :
          calculate_afrs_steering_call(inside_steering_angle, half_length, half_width)

SpecSolver == Init /\ [][NextSolver]_vars

\* steering_translation evaluated over pairs of angles
NextTranslation ==
    \E u \in 0 .. MaxAngle, v \in 0 .. MaxAngle : steering_translation_call(u, v)

SpecTranslation == Init /\ [][NextTranslation]_vars

\* the callback registry of the IrqClock and its interrupts
NextClock ==
    \/ \E callback \in Callbacks : add_callback(callback)
    \/ \E callback \in Callbacks : add_low_frequency_callback(callback)
    \/ \E callback \in Callbacks : remove_callback(callback)
    \/ callback_method
    \/ irq_enable
    \/ irq_disable

SpecClock == Init /\ [][NextClock]_vars

\* the GPS polled again and again
NextGps ==
    \/ \E verbose \in BOOLEAN : set_verbose(verbose)
    \/ \E result \in BOOLEAN, data \in SensorData : poll(result, data)

SpecGps == Init /\ [][NextGps]_vars

\* change_speed called again and again
NextChange == \E value \in RawValues : change_speed(value)

SpecChange == Init /\ [][NextChange]_vars

TypeOK ==
    /\ steering_mode \in SteeringModes \cup {"NONE"}
    /\ is_rotated \in BOOLEAN
    /\ multipliers \in [Motors -> SUBSET MultiplierNames]
    /\ motor_speed \in -1000 .. 1000
    /\ pc \in {"idle", "servo", "join"}
    /\ repo_thread \in 0 .. MaxRampThreads

\* ------------------------------------------------------------------ claims

\* a set_steering_mode call has ended and no other handler has run since
Returned == pc = "idle" /\ call.outcome \in {"ok", "error"}

ReturnedNormally == pc = "idle" /\ call.outcome = "ok"

\* the second of two set_steering_mode(m) calls in a row has returned
SecondOfTwo == ReturnedNormally /\ call.again

\* the call changed no multiplier and left the mode as it found it
NoMutation ==
    /\ ~call.removed
    /\ ~call.installed
    /\ steering_mode = call.pre_mode

HasAfrsLambdas ==
    \A m \in Motors :
        /\ Side(m) = "PORT" => PORT_AFRS_STEERING_LAMBDA_NAME \in multipliers[m]
        /\ Side(m) = "STBD" => STBD_AFRS_STEERING_LAMBDA_NAME \in multipliers[m]

\* C1, as stated: two set_steering_mode(m) calls in a row run the reposition
\* protocol exactly once in total, and the second call is a no-op.
C1_ExactlyOnce ==
    SecondOfTwo =>
        /\ call.first_repositions + call.repositions = 1
        /\ call.repositions = 0
        /\ NoMutation
        /\ steering_mode = call.target

\* C1, amended: the second call is a no-op, and the two calls run the reposition
\* protocol at most once: once when the first call started in another mode with
\* the servos not in m's mechanical state, and not at all otherwise.
C1_SecondIsNoOp ==
    SecondOfTwo =>
        /\ call.repositions = 0
        /\ NoMutation
        /\ steering_mode = call.target
        /\ call.first_repositions = (IF call.first_needed THEN 1 ELSE 0)

C1_Witness == SecondOfTwo /\ call.first_repositions = 1

C1_WitnessNoReposition == SecondOfTwo /\ call.first_repositions = 0

\* the call's target is a supported mode other than the current one, and the
\* servos were already in the target's mechanical state
ServosMatched ==
    /\ Returned
    /\ call.target \in SteeringModes
    /\ call.pre_mode # call.target
    /\ call.pre_rotated = (call.target = "ROTATE")

\* C2, as stated: with the servos already in the target's mechanical state,
\* set_steering_mode(target) runs no reposition, changes no multiplier and
\* leaves the steering mode unchanged.
C2_NoOp == ServosMatched => call.repositions = 0 /\ NoMutation

\* C2, amended: with the servos already in the target's mechanical state,
\* set_steering_mode(target) runs no reposition and removes no multiplier, but
\* it returns normally with the target mode committed, and for AFRS with the
\* AFRS multipliers installed; it installs nothing for ROTATE and SKID.
C2_CommitsWithoutReposition ==
    ServosMatched =>
        /\ call.outcome = "ok"
        /\ call.repositions = 0
        /\ call.servo = "none"
        /\ ~call.removed
        /\ steering_mode = call.target
        /\ call.target = "AFRS" => HasAfrsLambdas
        /\ call.target # "AFRS" => ~call.installed

C2_Witness == ServosMatched /\ call.target = "AFRS" /\ call.installed

\* C3, as stated: after set_steering_mode(AFRS) returns normally the mode is AFRS
\* and every motor has the AFRS multiplier of its side; after
\* set_steering_mode(ROTATE) or (SKID) returns normally the mode is the target
\* and the call has installed no multiplier.
C3_AfrsInstalled ==
    /\ (ReturnedNormally /\ call.target = "AFRS") =>
           steering_mode = "AFRS" /\ HasAfrsLambdas
    /\ (ReturnedNormally /\ call.target \in {"ROTATE", "SKID"}) =>
           steering_mode = call.target /\ ~call.installed

\* C4: the mode is one of unset, AFRS, ROTATE, SKID; once it is set it is never
\* unset again; and set_steering_mode(None) is rejected with the mode unchanged.
C4_NeverUnsetAgain ==
    /\ [](steering_mode \in SteeringModes \cup {"NONE"})
    /\ [][steering_mode # "NONE" => steering_mode' # "NONE"]_vars
    /\ []((Returned /\ call.target = "NONE") =>
             call.outcome = "error" /\ steering_mode = call.pre_mode)

C4_Witness == Returned /\ call.target = "NONE" /\ steering_mode # "NONE"

\* C5, as stated: when reposition() has returned (and set_steering_mode has
\* committed the mode), the ramp thread has issued its final speed 0.0 and
\* motor reposition(STOPPED).
C5_RampCompleted ==
    (ReturnedNormally /\ call.repositions = 1) => call.joined = "done"

\* C6, as stated: the servo set_mode command of a reposition is issued after
\* the ramp thread's first speed command and before its final zero-speed command.
C6_ServoDuringRamp == call.servo \in {"none", "during"}

\* C8, as stated: a set_steering_mode call that ends with an error leaves the
\* steering mode and every motor's multipliers as they were before the call.
C8_FailureLeavesIntact == (Returned /\ call.outcome = "error") => NoMutation

\* C9, as stated: when the ramp thread has raised, set_steering_mode does not
\* return normally with the mode committed.
C9_RampFailureObserved ==
    (Returned /\ call.joined = "failed") => call.outcome = "error"

\* C10, as stated: set_steering_mode with a value that is none of AFRS, ROTATE,
\* SKID raises, and runs no reposition or servo move, removes no multiplier and
\* leaves the mode unchanged.
C10_UnknownModeRejected ==
    (Returned /\ call.target \notin SteeringModes) =>
        /\ call.outcome = "error"
        /\ call.repositions = 0
        /\ call.servo = "none"
        /\ NoMutation

C12_InterruptStopsLoop ==
    hd.interrupted =>
        /\ ~hd.resumed
        /\ hd.pc \in {"returned", "raised"} => steering_mode = "AFRS"

\* C13, as stated: when set_heading ends with an error after it has switched to
\* ROTATE, the motors are commanded to stop and the steering mode is AFRS.
C13_FailureRestoresAfrs ==
    (hd.pc = "raised" /\ hd.in_loop) =>
        /\ steering_mode = "AFRS"
        /\ motor_speed = 0

\* C14, as stated: set_heading without an attached, calibrated IMU raises, and
\* it has changed no motor's multipliers, nor the steering mode, nor commanded
\* a motor or a servo.
C14_PreconditionsFirst ==
    (hd.pc # "idle" /\ hd.imu # "calibrated") =>
        /\ hd.pc = "raised"
        /\ ~hd.cleared
        /\ hd.rotate_cmd = "NONE"
        /\ call = NoCall

\* C15, as stated: the rotate command set_heading issues after the switch to
\* ROTATE is the sense of rotation the caller passed.
C15_RotatesInCallersSense ==
    hd.rotate_cmd \in RotationSenses => hd.rotate_cmd = hd.sense

\* C16, as stated: after every increment_speed call the ladder index lies within
\* FULL_ASTERN .. FULL_AHEAD, whatever mean speed the call read.
C16_IndexWithinFull ==
    ladder.called =>
        /\ ladder.index >= Chadburn.FULL_ASTERN
        /\ ladder.index <= Chadburn.FULL_AHEAD

\* C17: an increment_speed call commits a level at most one step from the level
\* closest to the mean speed it read, whatever the index was before, the stored
\* level is the one at the index, and its speed is commanded to the motors.
C17_StepFromResynchronised ==
    ladder.called =>
        /\ Abs(ladder.index - get_closest_value(ladder.mean)) <= 1
        /\ ladder.chadburn = ladder.index
        /\ motor_speed = ChadburnSpeed(ladder.index)

C17_Witness ==
    /\ ladder.called
    /\ get_closest_value(ladder.mean) = Chadburn.SLOW_AHEAD
    /\ Abs(ladder.pre_index - Chadburn.SLOW_AHEAD) > 1
    /\ Abs(ladder.index - Chadburn.SLOW_AHEAD) = 1

\* C18: under arbitrary sequences of increment_steering_angle(+1) and (-1) calls
\* from the constructed controller the steering-angle index stays within
\* COUNTER_CLOCKWISE_45 .. CLOCKWISE_45 and the stored preset is the preset at
\* that index (STRAIGHT_AHEAD at construction).
C18_IndexInRangePresetAtIndex ==
    /\ steer.index >= SteeringAngle.COUNTER_CLOCKWISE_45
    /\ steer.index <= SteeringAngle.CLOCKWISE_45
    /\ SteeringAngleValue(steer.preset) =
           SteeringAngleValues[steer.index - SteeringAngle.COUNTER_CLOCKWISE_45 + 1]
    /\ steer.index = 0 => steer.preset = SteeringAngle.STRAIGHT_AHEAD

C18_Witness ==
    /\ steer.op = "increment"
    /\ steer.pc = "returned"
    /\ steer.value = 1
    /\ steer.pre.index = SteeringAngle.CLOCKWISE_30
    /\ steer.index = SteeringAngle.CLOCKWISE_45
    /\ steer.preset = SteeringAngle.CLOCKWISE_45

\* an increment_steering_angle call beyond the end of the range has returned
OutOfRangeCall ==
    /\ steer.op = "increment"
    /\ steer.pc = "returned"
    /\ \/ steer.value = 1 /\ steer.pre.index = SteeringAngle.CLOCKWISE_45
       \/ steer.value = -1 /\ steer.pre.index = SteeringAngle.COUNTER_CLOCKWISE_45

\* C19, as stated: an out-of-range steering increment leaves the index, the
\* preset, the applied angle, both ratios and the steering mode as they were and
\* issues no servo command and no reposition, whatever the mode was before.
C19_NoOpWhateverMode ==
    OutOfRangeCall =>
        /\ Found(steer) = steer.pre
        /\ steer.commands = 0
        /\ steer.repositions = 0

\* C19, amended: an out-of-range steering increment leaves the index, the
\* preset, the applied angle and both ratios as they were and issues no servo
\* angle command; it leaves the steering mode AFRS, with no reposition when the
\* mode was AFRS before.
C19_NoOpButEnsuresAfrs ==
    OutOfRangeCall =>
        /\ steer.index = steer.pre.index
        /\ steer.preset = steer.pre.preset
        /\ steer.afrs_angle = steer.pre.afrs_angle
        /\ steer.port_ratio = steer.pre.port_ratio
        /\ steer.stbd_ratio = steer.pre.stbd_ratio
        /\ steer.commands = 0
        /\ steering_mode = "AFRS"
        /\ steer.pre.mode = "AFRS" => steer.repositions = 0

C19_Witness ==
    /\ OutOfRangeCall
    /\ steer.value = -1
    /\ steer.pre.mode = "ROTATE"
    /\ steer.repositions = 1
    /\ steering_mode = "AFRS"

\* a changed inner angle has been applied
Applied == steer.pc = "returned" /\ steer.applied

\* C20, as stated: applying a changed inner angle a sets the inner side's ratio
\* to steering_translation(|a|) and the other to 1.0, and commands the servos
\* with a on the inner side and calculate_afrs_steering(|a|) on the outer side.
C20_OuterIsSolverAngle ==
    Applied =>
        LET a == steer.afrs_angle
        IN  /\ a < 0 => /\ steer.port_ratio = steering_translation(-a)
                        /\ steer.stbd_ratio = Unity
                        /\ steer.servo.port = a
                        /\ 100 * steer.servo.stbd = calculate_afrs_steering(-a)
            /\ a > 0 => /\ steer.stbd_ratio = steering_translation(a)
                        /\ steer.port_ratio = Unity
                        /\ steer.servo.stbd = a
                        /\ 100 * steer.servo.port = calculate_afrs_steering(a)
            /\ a = 0 => steer.port_ratio = Unity /\ steer.stbd_ratio = Unity

\* C20, amended: as above, with the outer side commanded to the outer angle
\* truncated to whole degrees, int(calculate_afrs_steering(|a|)).
C20_OuterIsTruncated ==
    Applied =>
        LET a == steer.afrs_angle
        IN  /\ a = afrs_clamp(steer.inner)
            /\ a < 0 => /\ steer.port_ratio = steering_translation(-a)
                        /\ steer.port_ratio < Unity
                        /\ steer.stbd_ratio = Unity
                        /\ steer.servo.port = a
                        /\ steer.servo.stbd = calculate_afrs_steering(-a) \div 100
            /\ a > 0 => /\ steer.stbd_ratio = steering_translation(a)
                        /\ steer.stbd_ratio < Unity
                        /\ steer.port_ratio = Unity
                        /\ steer.servo.stbd = a
                        /\ steer.servo.port = calculate_afrs_steering(a) \div 100
            /\ a = 0 => steer.port_ratio = Unity /\ steer.stbd_ratio = Unity

C20_Witness ==
    /\ Applied
    /\ steer.pre.mode = "AFRS"
    /\ steer.afrs_angle = -20
    /\ steer.port_ratio = steering_translation(20)
    /\ steer.port_ratio < Unity
    /\ steer.stbd_ratio = Unity
    /\ steer.servo = [port |-> -20, stbd |-> 11]

\* C21, as stated: applying an inner angle whose clamped value equals the last
\* applied angle issues no servo angle command, triggers no mode transition and
\* no reposition, leaves the applied angle as it was and both ratios at 1.0,
\* also when the raw angle lies beyond the configured maximum.
C21_UnchangedIsNoOp ==
    (/\ steer.op = "apply"
     /\ steer.pc \in {"applying", "returned", "raised"}
     /\ afrs_clamp(steer.inner) = steer.pre.afrs_angle) =>
        /\ steer.pc = "returned"
        /\ steer.commands = 0
        /\ steer.repositions = 0
        /\ steering_mode = steer.pre.mode
        /\ steer.afrs_angle = steer.pre.afrs_angle
        /\ steer.port_ratio = Unity
        /\ steer.stbd_ratio = Unity

\* a message has been handled locally
HandledLocally == disp.pc \in {"handling", "done"} /\ disp.local = "atomic"

\* C22, as stated: a BUMPER message leads to exactly one stop handler call, halt
\* when the batch holds a priority-10 contact, also among priority-4 contacts,
\* and stop otherwise.
C22_CriticalHalts ==
    (HandledLocally /\ disp.event = "BUMPER") =>
        /\ Len(disp.stop_handler) = 1
        /\ (\E i \in 1 .. Len(disp.events) : disp.events[i] = 10)
              => disp.stop_handler = <<"halt">>
        /\ (\A i \in 1 .. Len(disp.events) : disp.events[i] # 10)
              => disp.stop_handler = <<"stop">>

\* C23: a STOP message with value 0 and an IMU message call the stop handler
\* once if the motors are reported not stopped and not at all if they are; a
\* message that calls no stop handler changes nothing and issues no command.
C23_StopOnlyWhileMoving ==
    (HandledLocally /\ disp.event \in {"STOP", "IMU"}) =>
        /\ (disp.value = 0 /\ ~disp.is_stopped) => Len(disp.stop_handler) = 1
        /\ (disp.value # 0 \/ disp.is_stopped) =>
              /\ disp.stop_handler = <<>>
              /\ ~disp.changed
              /\ disp.commands = {}

C23_Witness ==
    /\ disp.pc = "done"
    /\ disp.event = "IMU"
    /\ disp.is_stopped
    /\ disp.stop_handler = <<>>
    /\ motor_speed # 0
    /\ steering_mode = "AFRS"

\* C24, as stated: every dispatched message is forwarded to
\* Subscriber.process_message exactly once, after its local handling has ended,
\* also when the local handling fails.
C24_ForwardedOnce ==
    /\ disp.forwarded <= 1
    /\ disp.pc \in {"done", "raised"} => disp.forwarded = 1
    /\ disp.pc = "handling" => disp.forwarded = 0

\* C25: an unrecognised event raises no error, changes nothing the controller
\* acts on and issues no command.
C25_UnrecognisedChangesNothing ==
    (disp.event = "OTHER" /\ disp.pc # "idle") =>
        /\ disp.pc \in {"handling", "done"}
        /\ disp.local = "atomic"
        /\ ~disp.changed
        /\ disp.commands = {}
        /\ disp.stop_handler = <<>>

C25_Witness ==
    /\ disp.event = "OTHER"
    /\ disp.pc = "done"
    /\ disp.forwarded = 1
    /\ steering_mode = "AFRS"
    /\ steer.index # 0
    /\ ladder.index # 0
    /\ disp.speed_value # 0
    /\ \E m \in Motors : multipliers[m] # {}

\* C26, as stated: with initial calibration configured, enable() has not
\* returned and no message is handled before the push-button thread and its
\* callback have finished.
C26_GateJoined ==
    gate.calibration =>
        /\ gate.enable = "returned" => gate.thread = "done"
        /\ disp.pc # "idle" => gate.thread = "done"

CalculatedAngle == fn.name = "calculate_afrs_steering"

\* C27, as stated: for an inner angle of 1 to 89 degrees the outer angle
\* calculate_afrs_steering returns is larger than the inner angle, and it is 0
\* for the inner angle 0.
C27_OuterLarger ==
    CalculatedAngle =>
        /\ fn.x \in 1 .. 89 => fn.result >= fn.x
        /\ fn.x = 0 => fn.result = 0

\* C27, amended: for an inner angle of 1 to 89 degrees the outer angle
\* calculate_afrs_steering returns is smaller than the inner angle, and it is 0
\* for the inner angle 0.
C27_OuterSmaller ==
    CalculatedAngle =>
        /\ fn.x \in 1 .. 89 => fn.result < fn.x
        /\ fn.x = 0 => fn.result = 0

C27_Witness ==
    /\ CalculatedAngle
    /\ fn.x = 45
    /\ fn.y = 100
    /\ fn.z = 100
    /\ fn.result = 18

Translated == fn.name = "steering_translation"

\* C28, as stated: steering_translation(0) is 1.0, steering_translation(45) is
\* afrs_max_ratio, and steering_translation(u) <= steering_translation(v) for
\* all whole degrees 0 <= u <= v <= 45.
C28_NonDecreasing ==
    Translated =>
        /\ fn.x = 0 => fn.result = Unity
        /\ fn.y = MaxAngle => fn.other = AfrsMaxRatio
        /\ fn.result <= fn.other

\* C28, amended: steering_translation(0) is 1.0, steering_translation(45) is
\* afrs_max_ratio, and for afrs_max_ratio 0.36016 steering_translation(u) >=
\* steering_translation(v) for all whole degrees 0 <= u <= v <= 45, strictly
\* when u < v.
C28_NonIncreasing ==
    Translated =>
        /\ fn.x = 0 => fn.result = Unity
        /\ fn.y = MaxAngle => fn.other = AfrsMaxRatio
        /\ fn.result >= fn.other
        /\ fn.x < fn.y => fn.result > fn.other

C28_Witness ==
    /\ Translated
    /\ fn.x = 0
    /\ fn.y = MaxAngle
    /\ fn.result = Unity
    /\ fn.other = AfrsMaxRatio

\* a list holds no callback twice
NoDuplicates(list) ==
    \A i, j \in 1 .. Len(list) : list[i] = list[j] => i = j

\* C29, as stated: adding a callback that is already registered raises and
\* leaves the list unchanged, so that no list holds a callback twice; removing
\* a callback that is not registered raises nothing and changes nothing.
C29_DuplicatesRejectedRemovalsTolerated ==
    /\ NoDuplicates(irq.callbacks)
    /\ NoDuplicates(irq.lf_callbacks)
    /\ (irq.op = "add_callback" /\ irq.registered) =>
            irq.raised /\ irq.callbacks = irq.pre
    /\ (irq.op = "add_low_frequency_callback" /\ irq.registered) =>
            irq.raised /\ irq.lf_callbacks = irq.pre
    /\ (irq.op = "remove_callback" /\ ~irq.registered) =>
            ~irq.raised /\ irq.callbacks = irq.pre

\* C30, as stated: poll returns True exactly when the update succeeded and
\* delivered data; after a poll that returned False no value of the GPS holds
\* a value of an earlier fix.
C30_FailedPollZeroes ==
    gps.polled =>
        /\ gps.returned <=> (gps.update /\ gps.data # NoData)
        /\ ~gps.returned =>
              /\ gps.timestamp = "zero" /\ gps.latitude = "zero"
              /\ gps.longitude = "zero" /\ gps.lat_dir = "zero"
              /\ gps.lon_dir = "zero" /\ gps.altitude = "zero"
              /\ gps.geo_sep = "zero" /\ gps.num_sats = "zero"
              /\ gps.gps_qual = "zero" /\ gps.speed = "zero"
              /\ gps.pdop = "zero" /\ gps.hdop = "zero" /\ gps.vdop = "zero"

\* a set_steering_mode call with a supported target has begun
SupportedCall == call.outcome \in {"running", "ok", "error"} /\ call.target \in SteeringModes

\* the call found another mode set and the servos not in the mechanical state
\* of its target
MustMove ==
    /\ call.pre_mode # call.target
    /\ call.pre_rotated # (call.target = "ROTATE")

\* C31: set_steering_mode(target) with a supported target runs the reposition
\* protocol (ramp thread and servo set_mode command) if and only if the target
\* differs from the current mode and the servos are not in the target's
\* mechanical state; otherwise it starts no ramp thread, issues no servo
\* command, and returns with the target mode set.
C31_RepositionIffMustMove ==
    SupportedCall =>
        /\ call.repositions = (IF MustMove THEN 1 ELSE 0)
        /\ (pc \in {"servo", "join"}) => MustMove
        /\ (Returned /\ MustMove /\ call.outcome = "ok") => call.servo # "none"
        /\ ~MustMove =>
              /\ call.outcome = "ok"
              /\ call.servo = "none"
              /\ call.joined = "none"
              /\ steering_mode = call.target

C31_Witness ==
    /\ ReturnedNormally
    /\ call.target = "ROTATE"
    /\ call.pre_mode = "AFRS"
    /\ MustMove
    /\ call.repositions = 1
    /\ call.servo # "none"
    /\ call.joined = "done"
    /\ steering_mode = "ROTATE"

\* C32, as stated: while set_steering_mode runs the reposition protocol (from
\* the start of the ramp thread on) no motor holds a "steering" or a "stop"
\* multiplier, whichever of the two it held before.
C32_ShapingRemovedBeforeMove ==
    (pc \in {"servo", "join"}) =>
        \A m \in Motors :
            /\ ~has_speed_multiplier(multipliers[m], "steering")
            /\ ~has_speed_multiplier(multipliers[m], "stop")

\* C33, as stated: between dispatched events, whenever the steering mode is
\* AFRS every motor has the AFRS multiplier of its side installed.
C33_AfrsModeHasAfrsLambdas ==
    (pc = "idle" /\ steering_mode = "AFRS") => HasAfrsLambdas

\* C34, as stated: between steering calls the side ratios match the applied
\* AFRS angle a: for a non-zero a the inner side's ratio is
\* steering_translation(|a|) and the outer side's is 1.0, and both are 1.0 only
\* when a is 0.
C34_RatiosMatchAngle ==
    (steer.pc \in {"idle", "returned"}) =>
        LET a == steer.afrs_angle
        IN  /\ a < 0 => /\ steer.port_ratio = steering_translation(-a)
                        /\ steer.stbd_ratio = Unity
            /\ a > 0 => /\ steer.stbd_ratio = steering_translation(a)
                        /\ steer.port_ratio = Unity
            /\ (steer.port_ratio = Unity /\ steer.stbd_ratio = Unity) => a = 0

\* no mode transition and no ramp thread is running
TransitionEnded == pc = "idle" /\ \A t \in ThreadIds : ramp[t].phase = "free"

\* set_heading is past its loop
PastLoop == hd.pc \in {"restore", "restoring", "returned"}

\* C35: a set_heading run that passes its preconditions issues its commands in
\* order: no rotate command and no loop speed command before the transition to
\* ROTATE has ended; the rotate command before the first loop speed command;
\* no loop speed command once the loop is left; rotate(STOPPED) before the
\* transition back to AFRS begins.
C35_ProtocolOrder ==
    /\ [](hd.pc \in {"switch", "switching"} =>
             hd.rotate_cmd = "NONE" /\ ~hd.commanded)
    /\ [](hd.pc = "loop" =>
             /\ TransitionEnded
             /\ call.target = "ROTATE"
             /\ call.outcome = "ok"
             /\ steering_mode = "ROTATE"
             /\ hd.rotate_cmd \in RotationSenses)
    /\ [](PastLoop => hd.rotate_cmd = "STOPPED")
    /\ [](hd.pc = "restore" => call.target = "ROTATE" /\ steering_mode = "ROTATE")
    /\ [][(PastLoop /\ hd'.pc \in {"restore", "restoring", "returned"}) =>
             /\ hd'.commanded = hd.commanded
             /\ hd'.diff = hd.diff
             /\ (motor_speed' # motor_speed => ramp' # ramp)]_vars

C35_Witness ==
    /\ hd.pc = "returned"
    /\ hd.commanded
    /\ hd.rotate_cmd = "STOPPED"
    /\ call.target = "AFRS"
    /\ call.repositions = 1
    /\ call.joined = "done"
    /\ steering_mode = "AFRS"

\* C36, as stated: each pass of the heading loop commands PORT and STBD to the
\* absolute value of manual_speed * diff / 180 (0 when that is negligible),
\* never a negative speed and never more than the manual speed.
C36_LoopSpeedIsMagnitude ==
    (/\ hd.pc \in {"loop", "restore"}
     /\ hd.commanded
     /\ hd.interrupted => hd.resumed) =>
        /\ motor_speed = Abs(ScaledSpeed(hd.pot, hd.diff))
        /\ motor_speed >= 0
        /\ motor_speed <= hd.pot

ChangedSpeeds == fn.name = "change_speed"

\* C37, as stated: change_speed(raw) takes the increment
\* clamp(round((127 - raw) / 16), -7, 7) and the delta increment * 0.002856,
\* commands each motor to its target speed plus the delta exactly when
\* |delta| > 0.01, and leaves the ladder index alone.
C37_RoundedIncrement ==
    ChangedSpeeds =>
        /\ fn.result = incr_clamp(RoundHalfEven16(127 - fn.x))
        /\ fn.other = fn.result * 2856
        /\ fn.z = (IF Abs(fn.other) > 10000 THEN 1 ELSE 0)
        /\ motor_speed = (IF fn.z = 1 THEN fn.y + Thousandths(fn.other) ELSE fn.y)
        /\ ladder.index = NoLadder.index

\* C37, amended: the increment is (127 - raw) / 16 truncated towards zero and
\* clamped to -7 .. 7; the rest as stated.
C37_TruncatedIncrement ==
    ChangedSpeeds =>
        LET vel == 127 - fn.x
            increment == fn.result
        IN  /\ increment \in -7 .. 7
            /\ vel >= 0 => increment >= 0
            /\ vel <= 0 => increment <= 0
            /\ Abs(increment) < 7 =>
                  /\ 16 * Abs(increment) <= Abs(vel)
                  /\ Abs(vel) < 16 * (Abs(increment) + 1)
            /\ Abs(increment) = 7 => Abs(vel) >= 112
            /\ fn.other = increment * 2856
            /\ fn.z = (IF Abs(fn.other) > 10000 THEN 1 ELSE 0)
            /\ motor_speed = (IF fn.z = 1 THEN fn.y + Thousandths(fn.other) ELSE fn.y)
            /\ ladder.index = NoLadder.index

C37_Witness ==
    /\ ChangedSpeeds
    /\ fn.x = 67
    /\ fn.result = 3
    /\ fn.z = 0
    /\ fn.y # 0
    /\ motor_speed = fn.y

\* the calls the regular callbacks get from one tick: each one once, in the
\* order of registration
RegularCalls == Invocations("callbacks", irq.callbacks)

\* the calls the low-frequency callbacks get from a tick on which they are due
LowFrequencyCalls == Invocations("lf_callbacks", irq.lf_callbacks)

\* C38, as stated: a tick of the enabled clock calls every registered callback
\* once in registration order and then, on the 1st, the (freq_divider+1)-th,
\* ... enabled tick and on no other, the low-frequency callbacks; a tick of
\* the disabled clock calls nothing, and the divider count is the number of
\* enabled ticks, so that a disabled tick does not advance it.
C38_TickInvokesCallbacks ==
    /\ irq.counter = irq.ticks
    /\ (irq.op = "tick" /\ irq.enabled) =>
          irq.invoked = RegularCalls \o
              (IF (irq.ticks - 1) % FreqDivider = 0 THEN LowFrequencyCalls ELSE <<>>)
    /\ (irq.op = "tick" /\ ~irq.enabled) => irq.invoked = <<>>

\* the (freq_divider+1)-th enabled tick, with two callbacks and a low-frequency
\* callback registered, called all three
C38_Witness ==
    /\ irq.op = "tick"
    /\ irq.enabled
    /\ irq.ticks = FreqDivider + 1
    /\ Len(irq.callbacks) = 2
    /\ Len(irq.lf_callbacks) = 1
    /\ Len(irq.invoked) = 3
    /\ irq.invoked[3].list = "lf_callbacks"

\* the ratio of the port or the starboard motors, or both, is 1.0
OneSideSlowed == steer.port_ratio = Unity \/ steer.stbd_ratio = Unity

\* the angle a reading of the analog axis gives the geometry solver
SolverArgument(value) == Abs(afrs_clamp(remap_range(value)))

====
